---- MODULE Spec2Model ----
(***************************************************************************)
(* A model of glazewm-debug: the domain aggregates (Monitor::try_new),     *)
(* the protocol parser, the external-process client, the shared store      *)
(* (AppState, four independently locked fields), the update loop, the      *)
(* input task, the render loop and the orchestration in main / TuiApp::run.*)
(***************************************************************************)
EXTENDS Integers, Sequences, FiniteSets, TLC

VARIABLES
    \* ---- AppState (src/app/state.rs) ----
    monitors,          \* Vec<Monitor>
    running,           \* bool
    last_update,       \* Option<Instant>
    display_mode,      \* DisplayMode
    locks,             \* the four RwLocks: field -> [writer, readers]
    \* ---- control state of the activities ----
    pc,                \* activity -> position in its code
    main_pc,           \* main(): "load", "select", "shutdown"
    abort_requested,   \* the input task's cancel flag (abort / runtime teardown)
    \* ---- locals of the activities ----
    pending,           \* update_once: the parsed Vec<Monitor> about to be installed
    r_monitors,        \* render_loop: the clone being built / returned by get_monitors
    r_mode,            \* render_loop: the display mode read for this frame
    last_toggle_time,  \* handle_input_events: last_toggle_time
    toggle_now,        \* handle_input_events: `now` captured for the toggle being applied
    now,               \* the monotonic clock (Instant::now()), in milliseconds
    \* ---- history (observation only; no action's guard reads it) ----
    last_read,         \* activity -> the run flag as it last read it ("none" before)
    cycle,             \* the refresh cycle in progress or just ended
    passed,            \* the lists that have been passed to update_monitors
    gm_store,          \* the store's list at the moment get_monitors last returned
    writes,            \* <<activity, field>> pairs written while the activities run
    toggles,           \* the ToggleMode actions handled of late (at most two)
    cancelled_at,      \* activity -> the position it was dropped / aborted at
    \* ---- the harness for the pure functions of the domain layer ----
    call               \* the last constructor call and what it returned

vars == << monitors, running, last_update, display_mode, locks, pc, main_pc,
           abort_requested, pending, r_monitors, r_mode, last_toggle_time,
           toggle_now, now, last_read, cycle, passed, gm_store, writes, toggles,
           cancelled_at, call >>

storeVars == << monitors, running, last_update, display_mode, locks >>

progVars == << pc, main_pc, abort_requested, pending, r_monitors, r_mode,
               last_toggle_time, toggle_now, now >>

histVars == << last_read, cycle, passed, gm_store, writes, toggles, cancelled_at >>

----------------------------------------------------------------------------
(* Bounds of the model *)

\* The clock advances in steps of TimeStep ms, at most MaxTicks times.
MaxTicks == 2

TimeStep == 100

\* The longest sequence of mutator calls made on one aggregate.
MaxCalls == 3

\* The most children of one workspace record, and of one monitor record, in
\* the documents given to parse_monitors.
MaxChildren == 2

\* The most monitor records in one such document.
MaxMonitors == 3

\* The most iterations of the update loop in a run of the client alone.
MaxCycles == 3

\* The largest container width and height given to calculate_layout.
MaxSide == 7

\* The width in bits of the integers of Rectangle::contains_point: i32 and u32
\* are scaled down to IntBits bits, two's complement, so that every value and
\* every overflow can be enumerated.
IntBits == 4

\* the number of query_monitors calls made on one demo client
MaxDemoQueries == 5

----------------------------------------------------------------------------
(* Domain layer: value objects and enums (src/domain/values.rs, mod.rs) *)

None == [none |-> TRUE]

Some(v) == [some |-> v]

Ok(v) == [ok |-> TRUE, value |-> v]

Err(e) == [ok |-> FALSE, error |-> e]

Position(x, y) == [x |-> x, y |-> y]

Size(width, height) == [width |-> width, height |-> height]

Rectangle(position, size) == [position |-> position, size |-> size]

FocusStates == {"Focused", "Unfocused"}

\* An f64: NaN, or a number.  Every comparison with NaN is false (IEEE 754).
F64(n) == [nan |-> FALSE, num |-> n]

NaN == [nan |-> TRUE, num |-> 0]

F64LeZero(f) == ~f.nan /\ f.num <= 0

----------------------------------------------------------------------------
(* Rectangle::contains_point (src/domain/values.rs) on IntBits-bit integers *)

RECURSIVE Pow2(_)
Pow2(n) == IF n = 0 THEN 1 ELSE 2 * Pow2(n - 1)

\* i32::MIN, i32::MAX, u32::MAX
IMin == 0 - Pow2(IntBits - 1)

IMax == Pow2(IntBits - 1) - 1

UMax == Pow2(IntBits) - 1

\* `u as i32`: the same bits read as a signed integer
AsSigned(u) == IF u > IMax THEN u - Pow2(IntBits) ELSE u

\* i32 `+` leaves the range
AddOverflows(a, b) == a + b < IMin \/ a + b > IMax

\* i32 `+` without overflow checks: the sum modulo 2^IntBits
WrappingAdd(a, b) == ((a + b - IMin) % Pow2(IntBits)) + IMin

Returned(b) == [panicked |-> FALSE, value |-> b]

\* "attempt to add with overflow"
Panicked == [panicked |-> TRUE, value |-> FALSE]

\* Rectangle::contains_point: four comparisons joined by `&&`, evaluated left
\* to right; with overflow checks (debug profile) an overflowing `+` panics,
\* without them (release profile) it wraps
ContainsPoint(rect, point, overflow_checks) ==
    LET w == AsSigned(rect.size.width)
        h == AsSigned(rect.size.height)
    IN  IF ~(point.x >= rect.position.x) THEN Returned(FALSE)
        ELSE IF overflow_checks /\ AddOverflows(rect.position.x, w) THEN Panicked
        ELSE IF ~(point.x < WrappingAdd(rect.position.x, w)) THEN Returned(FALSE)
        ELSE IF ~(point.y >= rect.position.y) THEN Returned(FALSE)
        ELSE IF overflow_checks /\ AddOverflows(rect.position.y, h) THEN Panicked
        ELSE Returned(point.y < WrappingAdd(rect.position.y, h))

----------------------------------------------------------------------------
(* Monitor (src/domain/monitor.rs) *)

DeviceInfo(dpi, scale_factor, device_name) ==
    [dpi |-> dpi, scale_factor |-> scale_factor, device_name |-> device_name]

\* Monitor::new: no validation; device_name = format!("Monitor {}", id)
MonitorNew(id, geometry, workspaces, focus_state, dpi, scale_factor) ==
    [id |-> id, geometry |-> geometry, workspaces |-> workspaces,
     focus_state |-> focus_state,
     device_info |-> DeviceInfo(dpi, scale_factor, <<"Monitor ", id>>)]

\* a faulty variant: a zero width is let through
GeometryInvalidHeightOnly(geometry) == geometry.size.height = 0

GeometryInvalid(geometry) == geometry.size.width = 0 \/ geometry.size.height = 0

DpiInvalidOffByOne(dpi) == dpi < 0

DpiInvalid(dpi) == dpi <= 0

ScaleFactorInvalid(scale_factor) == F64LeZero(scale_factor)

\* Monitor::try_new: geometry, then dpi, then scale factor; else Monitor::new
TryNew(id, geometry, workspaces, focus_state, dpi, scale_factor) ==
    IF GeometryInvalid(geometry)
    THEN Err([kind |-> "InvalidGeometry", width |-> geometry.size.width,
              height |-> geometry.size.height])
    ELSE IF DpiInvalid(dpi)
    THEN Err([kind |-> "InvalidDpi", dpi |-> dpi])
    ELSE IF ScaleFactorInvalid(scale_factor)
    THEN Err([kind |-> "InvalidScaleFactor", scale |-> scale_factor])
    ELSE Ok(MonitorNew(id, geometry, workspaces, focus_state, dpi, scale_factor))

----------------------------------------------------------------------------
(* Window and Workspace (src/domain/window.rs, src/domain/workspace.rs) *)

\* Window::new: total
WindowNew(id, title, process_name, geometry, state, focus_state, display_state) ==
    [id |-> id, title |-> title, process_name |-> process_name, geometry |-> geometry,
     state |-> state, focus_state |-> focus_state, display_state |-> display_state]

\* Workspace::new: total, no validation of the window list
WorkspaceNew(id, name, windows, tiling_direction, focus_state, display_state) ==
    [id |-> id, name |-> name, windows |-> windows,
     tiling_direction |-> tiling_direction, focus_state |-> focus_state,
     display_state |-> display_state]

----------------------------------------------------------------------------
(* Aggregate mutators (src/domain/workspace.rs, src/domain/monitor.rs).    *)
(* A &mut self method is a function to [result, self after the call].      *)

\* the () of Result<(), DomainError>
Unit == [unit |-> TRUE]

\* a faulty variant: the duplicate test never finds the id
ContainsIdNever(children, id) == FALSE

\* self.windows.iter().any(|w| w.id() == window.id()), and the like for workspaces
ContainsId(children, id) == \E i \in 1..Len(children) : children[i].id = id

\* .iter().position(|w| w.id() == window_id): the first index, 0 for None
Position1(children, id) ==
    IF ContainsId(children, id)
    THEN CHOOSE i \in 1..Len(children) :
            /\ children[i].id = id
            /\ \A j \in 1..(i - 1) : children[j].id # id
    ELSE 0

\* Vec::remove(position)
RemoveAt(seq, i) == SubSeq(seq, 1, i - 1) \o SubSeq(seq, i + 1, Len(seq))

\* a faulty variant: a duplicate add overwrites the window that has the id
AddWindowOverwrites(workspace, window) ==
    IF ContainsId(workspace.windows, window.id)
    THEN [result |-> Ok(Unit),
          self |-> [workspace EXCEPT
                       !.windows[Position1(workspace.windows, window.id)] = window]]
    ELSE [result |-> Ok(Unit),
          self |-> [workspace EXCEPT !.windows = Append(@, window)]]

\* Workspace::add_window
AddWindow(workspace, window) ==
    IF ContainsId(workspace.windows, window.id)
    THEN [result |-> Err([kind |-> "DuplicateWindowId", id |-> window.id]),
          self |-> workspace]
    ELSE [result |-> Ok(Unit),
          self |-> [workspace EXCEPT !.windows = Append(@, window)]]

\* Workspace::remove_window
RemoveWindow(workspace, window_id) ==
    LET position == Position1(workspace.windows, window_id)
    IN  IF position = 0
        THEN [result |-> Err([kind |-> "WindowNotFound", id |-> window_id]),
              self |-> workspace]
        ELSE [result |-> Ok(workspace.windows[position]),
              self |-> [workspace EXCEPT !.windows = RemoveAt(@, position)]]

\* a faulty variant: nothing is deactivated
DeactivateNoWorkspace(workspaces) == workspaces

\* Monitor::deactivate_all_workspaces
DeactivateAllWorkspaces(workspaces) ==
    [i \in 1..Len(workspaces) |-> [workspaces[i] EXCEPT !.focus_state = "Unfocused"]]

\* a faulty variant: the others are deactivated before the duplicate check
AddWorkspaceDeactivatesFirst(monitor, workspace) ==
    LET deactivated == IF workspace.focus_state = "Focused"
                       THEN DeactivateAllWorkspaces(monitor.workspaces)
                       ELSE monitor.workspaces
    IN  IF ContainsId(monitor.workspaces, workspace.id)
        THEN [result |-> Err([kind |-> "DuplicateWorkspaceId", id |-> workspace.id]),
              self |-> [monitor EXCEPT !.workspaces = deactivated]]
        ELSE [result |-> Ok(Unit),
              self |-> [monitor EXCEPT !.workspaces = Append(deactivated, workspace)]]

\* Monitor::add_workspace
AddWorkspace(monitor, workspace) ==
    IF ContainsId(monitor.workspaces, workspace.id)
    THEN [result |-> Err([kind |-> "DuplicateWorkspaceId", id |-> workspace.id]),
          self |-> monitor]
    ELSE [result |-> Ok(Unit),
          self |-> [monitor EXCEPT
                       !.workspaces =
                           Append(IF workspace.focus_state = "Focused"
                                  THEN DeactivateAllWorkspaces(@) ELSE @,
                                  workspace)]]

\* Monitor::remove_workspace
RemoveWorkspace(monitor, workspace_id) ==
    LET position == Position1(monitor.workspaces, workspace_id)
    IN  IF position = 0
        THEN [result |-> Err([kind |-> "WorkspaceNotFound", id |-> workspace_id]),
              self |-> monitor]
        ELSE [result |-> Ok(monitor.workspaces[position]),
              self |-> [monitor EXCEPT !.workspaces = RemoveAt(@, position)]]

----------------------------------------------------------------------------
(* Derived queries (src/domain/monitor.rs, src/domain/workspace.rs) *)

\* Workspace::window_count
WindowCount(workspace) == Len(workspace.windows)

\* a faulty variant: the number of workspaces that hold a window
TotalWindowCountNonEmpty(monitor) ==
    Cardinality({ i \in 1..Len(monitor.workspaces) : monitor.workspaces[i].windows # <<>> })

\* Iterator::sum over the window counts, in workspace order
RECURSIVE SumWindowCounts(_)
SumWindowCounts(workspaces) ==
    IF workspaces = <<>> THEN 0
    ELSE WindowCount(Head(workspaces)) + SumWindowCounts(Tail(workspaces))

\* Monitor::total_window_count
TotalWindowCount(monitor) == SumWindowCounts(monitor.workspaces)

WindowLayoutNew(window_id, position, size) ==
    [window_id |-> window_id, position |-> position, size |-> size]

\* Workspace::calculate_horizontal_layout: every window gets width / count
CalculateHorizontalLayout(workspace, container_size) ==
    LET window_count == Len(workspace.windows)
        window_width == container_size.width \div window_count
    IN  [i \in 1..window_count |->
            WindowLayoutNew(workspace.windows[i].id,
                            Position((i - 1) * window_width, 0),
                            Size(window_width, container_size.height))]

\* Workspace::calculate_vertical_layout: every window gets height / count
CalculateVerticalLayout(workspace, container_size) ==
    LET window_count == Len(workspace.windows)
        window_height == container_size.height \div window_count
    IN  [i \in 1..window_count |->
            WindowLayoutNew(workspace.windows[i].id,
                            Position(0, (i - 1) * window_height),
                            Size(container_size.width, window_height))]

\* Workspace::calculate_layout
CalculateLayout(workspace, container_size) ==
    IF workspace.windows = <<>> THEN <<>>
    ELSE IF workspace.tiling_direction = "Horizontal"
    THEN CalculateHorizontalLayout(workspace, container_size)
    ELSE CalculateVerticalLayout(workspace, container_size)

\* Workspace::focused_window: windows.iter().find(|w| w.is_focused())
RECURSIVE FindFocused(_)
FindFocused(windows) ==
    IF windows = <<>> THEN None
    ELSE IF Head(windows).focus_state = "Focused" THEN Some(Head(windows))
    ELSE FindFocused(Tail(windows))

WorkspaceFocusedWindow(workspace) == FindFocused(workspace.windows)

\* a faulty variant: only Focused workspaces are searched
RECURSIVE FindMapFocusedOnly(_)
FindMapFocusedOnly(workspaces) ==
    IF workspaces = <<>> THEN None
    ELSE IF /\ Head(workspaces).focus_state = "Focused"
            /\ WorkspaceFocusedWindow(Head(workspaces)) # None
    THEN WorkspaceFocusedWindow(Head(workspaces))
    ELSE FindMapFocusedOnly(Tail(workspaces))

\* workspaces.iter().find_map(|workspace| workspace.focused_window())
RECURSIVE FindMapFocused(_)
FindMapFocused(workspaces) ==
    IF workspaces = <<>> THEN None
    ELSE IF WorkspaceFocusedWindow(Head(workspaces)) # None
    THEN WorkspaceFocusedWindow(Head(workspaces))
    ELSE FindMapFocused(Tail(workspaces))

\* Monitor::focused_window
MonitorFocusedWindow(monitor) == FindMapFocused(monitor.workspaces)

----------------------------------------------------------------------------
(* Protocol parser (src/cli/parser.rs).  A JSON object is a record; a      *)
(* missing key is a key outside its DOMAIN.                                *)

Has(obj, key) == key \in DOMAIN obj

\* serde_json::Value scalars, tagged by their JSON type
JBool(b) == [type |-> "bool", bool |-> b]

JString(s) == [type |-> "string", str |-> s]

JNumber(n) == [type |-> "number", num |-> n]

JNull == [type |-> "null"]

\* Value::as_bool
AsBool(v) == IF v.type = "bool" THEN Some(v.bool) ELSE None

\* Option::unwrap_or
UnwrapOr(opt, default) == IF opt = None THEN default ELSE opt.some

JsonParseError(message) == [kind |-> "JsonParseError", message |-> message]

FocusOf(has_focus) == IF has_focus THEN "Focused" ELSE "Unfocused"

\* serde: the fields of RawWorkspaceChild::Window without #[serde(default)]
RawWindowRequired ==
    {"id", "hasFocus", "width", "height", "x", "y", "state", "displayState", "title",
     "processName"}

\* serde: the fields of RawMonitorChild::Workspace without #[serde(default)]
RawWorkspaceRequired ==
    {"id", "name", "hasFocus", "isDisplayed", "tilingDirection", "children"}

\* serde: the fields of RawMonitor without #[serde(default)]
RawMonitorRequired ==
    {"type", "id", "x", "y", "width", "height", "scaleFactor", "dpi", "hasFocus",
     "children"}

\* Deserialize for RawWorkspaceChild: internally tagged by "type"; any tag but
\* "window" is the unit variant Other; a "window" needs its required fields.
RawWorkspaceChildValid(c) ==
    /\ Has(c, "type")
    /\ c.type = "window" =>
          /\ RawWindowRequired \subseteq DOMAIN c
          /\ c.width >= 0 /\ c.height >= 0
          /\ Has(c.state, "type")

\* Deserialize for RawMonitorChild: tagged by "type"; any tag but "workspace" is Other.
RawMonitorChildValid(c) ==
    /\ Has(c, "type")
    /\ c.type = "workspace" =>
          /\ RawWorkspaceRequired \subseteq DOMAIN c
          /\ \A i \in 1..Len(c.children) : RawWorkspaceChildValid(c.children[i])

\* Deserialize for RawMonitor (width and height are u32)
RawMonitorValid(m) ==
    /\ RawMonitorRequired \subseteq DOMAIN m
    /\ m.width >= 0 /\ m.height >= 0
    /\ \A i \in 1..Len(m.children) : RawMonitorChildValid(m.children[i])

\* serde_json::from_value::<MonitorResponse>(json["data"].clone())
MonitorResponseValid(json) ==
    /\ Has(json, "data")
    /\ Has(json.data, "monitors")
    /\ \A i \in 1..Len(json.data.monitors) : RawMonitorValid(json.data.monitors[i])

\* match state.state_type.as_str()
WindowStateOf(state_type) ==
    CASE state_type = "tiling" -> "Tiling"
      [] state_type = "floating" -> "Floating"
      [] state_type = "fullscreen" -> "Fullscreen"
      [] state_type = "minimized" -> "Minimized"
      [] OTHER -> "Tiling"

\* match display_state.as_str()
WindowDisplayStateOf(display_state) ==
    CASE display_state = "shown" -> "Shown"
      [] display_state = "hidden" -> "Hidden"
      [] OTHER -> "Shown"

\* a faulty variant: the match ignores the case of the first letter
TilingDirectionOfAnyCase(tiling_direction) ==
    IF tiling_direction \in {"vertical", "Vertical"} THEN "Vertical" ELSE "Horizontal"

\* match tiling_direction.as_str()
TilingDirectionOf(tiling_direction) ==
    CASE tiling_direction = "horizontal" -> "Horizontal"
      [] tiling_direction = "vertical" -> "Vertical"
      [] OTHER -> "Horizontal"

\* GlazewmParser::convert_window_from_raw
ConvertWindowFromRaw(w) ==
    Ok(WindowNew(w.id, w.title, w.processName,
                 Rectangle(Position(w.x, w.y), Size(w.width, w.height)),
                 WindowStateOf(w.state.type), FocusOf(w.hasFocus),
                 WindowDisplayStateOf(w.displayState)))

\* the loop over a workspace's children: windows are converted and pushed in
\* document order, every Other child is skipped
RECURSIVE ConvertWindows(_, _)
ConvertWindows(children, windows) ==
    IF children = <<>> THEN Ok(windows)
    ELSE IF Head(children).type = "window"
    THEN LET r == ConvertWindowFromRaw(Head(children))
         IN  IF r.ok THEN ConvertWindows(Tail(children), Append(windows, r.value))
             ELSE r
    ELSE ConvertWindows(Tail(children), windows)

\* GlazewmParser::convert_workspace_from_raw
ConvertWorkspaceFromRaw(ws) ==
    LET r == ConvertWindows(ws.children, <<>>)
    IN  IF r.ok
        THEN Ok(WorkspaceNew(ws.id, ws.name, r.value,
                             TilingDirectionOf(ws.tilingDirection), FocusOf(ws.hasFocus),
                             IF ws.isDisplayed THEN "Shown" ELSE "Hidden"))
        ELSE r

\* a faulty variant: a child that is not a workspace fails the conversion
RECURSIVE ConvertWorkspacesStrict(_, _)
ConvertWorkspacesStrict(children, workspaces) ==
    IF children = <<>> THEN Ok(workspaces)
    ELSE IF Head(children).type = "workspace"
    THEN LET r == ConvertWorkspaceFromRaw(Head(children))
         IN  IF r.ok THEN ConvertWorkspacesStrict(Tail(children), Append(workspaces, r.value))
             ELSE r
    ELSE Err(JsonParseError([text |-> "unknown child"]))

\* the loop over a monitor's children: workspaces are converted and pushed in
\* document order, every Other child is skipped
RECURSIVE ConvertWorkspaces(_, _)
ConvertWorkspaces(children, workspaces) ==
    IF children = <<>> THEN Ok(workspaces)
    ELSE IF Head(children).type = "workspace"
    THEN LET r == ConvertWorkspaceFromRaw(Head(children))
         IN  IF r.ok THEN ConvertWorkspaces(Tail(children), Append(workspaces, r.value))
             ELSE r
    ELSE ConvertWorkspaces(Tail(children), workspaces)

\* Monitor::try_new(..).map_err(|e| CliError::JsonParseError {..})
MapTryNewError(r) ==
    IF r.ok THEN r ELSE Err(JsonParseError([text |-> "Failed to create monitor: ", cause |-> r.error]))

\* GlazewmParser::convert_monitor
ConvertMonitor(raw) ==
    LET ws == ConvertWorkspaces(raw.children, <<>>)
    IN  IF ws.ok
        THEN MapTryNewError(
                 TryNew(raw.id,
                        Rectangle(Position(raw.x, raw.y), Size(raw.width, raw.height)),
                        ws.value, FocusOf(raw.hasFocus), raw.dpi, raw.scaleFactor))
        ELSE ws

\* a faulty variant: the first failing record ends the loop with the monitors
\* converted so far
RECURSIVE ConvertMonitorsPartial(_, _)
ConvertMonitorsPartial(raws, acc) ==
    IF raws = <<>> THEN Ok(acc)
    ELSE LET r == ConvertMonitor(Head(raws))
         IN  IF r.ok THEN ConvertMonitorsPartial(Tail(raws), Append(acc, r.value))
             ELSE Ok(acc)

\* the loop of parse_monitors: the first failing record aborts the whole parse
RECURSIVE ConvertMonitors(_, _)
ConvertMonitors(raws, acc) ==
    IF raws = <<>> THEN Ok(acc)
    ELSE LET r == ConvertMonitor(Head(raws))
         IN  IF r.ok THEN ConvertMonitors(Tail(raws), Append(acc, r.value)) ELSE r

\* GlazewmParser::parse_monitors
ParseMonitors(json) ==
    IF MonitorResponseValid(json)
    THEN ConvertMonitors(json.data.monitors, <<>>)
    ELSE Err(JsonParseError([text |-> "serde"]))

\* a faulty variant: the list of an earlier call is kept and appended to
ParseAgainAccumulates(json, earlier) ==
    LET r == ParseMonitors(json)
    IN  IF earlier.ok /\ r.ok THEN Ok(earlier.value \o r.value) ELSE r

\* parse_monitors called after an earlier call that returned `earlier`:
\* GlazewmParser has no fields and `monitors` is a fresh local Vec
ParseAgain(json, earlier) == ParseMonitors(json)

----------------------------------------------------------------------------
(* External-process client (src/cli/client.rs) *)

\* a faulty variant: the data field is looked for first
ValidateResponseDataFirst(response) ==
    IF ~Has(response, "data")
    THEN Err([kind |-> "InvalidJsonSchema", field |-> "data"])
    ELSE IF ~UnwrapOr(IF Has(response, "success") THEN AsBool(response.success) ELSE None,
                      FALSE)
    THEN Err([kind |-> "InvalidJsonSchema", field |-> "success"])
    ELSE Ok(response)

\* RealGlazewmClient::validate_response: success must be the boolean true, data present
ValidateResponse(response) ==
    IF ~UnwrapOr(IF Has(response, "success") THEN AsBool(response.success) ELSE None,
                 FALSE)
    THEN Err([kind |-> "InvalidJsonSchema", field |-> "success"])
    ELSE IF ~Has(response, "data")
    THEN Err([kind |-> "InvalidJsonSchema", field |-> "data"])
    ELSE Ok(response)

\* a faulty variant: a command that timed out is launched once more
RelaunchesOnTimeout(outcome) == IF outcome.kind = "timeout" THEN 1 ELSE 0

\* execute_query, lines 50-87: every outcome returns; no loop, no second
\* Command::output
Relaunches(outcome) == 0

\* RealGlazewmClient::execute_query on what the external process did
ExecuteQuery(outcome) ==
    CASE outcome.kind = "timeout" -> Err([kind |-> "CommandTimeout"])
      [] outcome.kind = "spawn_failed" -> Err([kind |-> "CommandExecutionFailed"])
      [] outcome.kind = "exit_nonzero" ->
            Err([kind |-> "CommandFailed", code |-> outcome.code, stderr |-> outcome.stderr])
      [] outcome.kind = "not_json" -> Err(JsonParseError([text |-> "serde"]))
      [] outcome.kind = "json" -> ValidateResponse(outcome.stdout)

----------------------------------------------------------------------------
(* What the external process can do on one `query monitors`                *)

RawWindow(id, has_focus, state_type) ==
    [type |-> "window", id |-> id, hasFocus |-> has_focus, width |-> 960,
     height |-> 1040, x |-> 0, y |-> 0, state |-> [type |-> state_type],
     displayState |-> "shown", title |-> "t", processName |-> "p"]

RawWorkspace(id, has_focus, children) ==
    [type |-> "workspace", id |-> id, name |-> id, hasFocus |-> has_focus,
     isDisplayed |-> has_focus, tilingDirection |-> "horizontal", children |-> children]

RawMonitor(id, width, height, dpi, scale_factor, has_focus, children) ==
    [type |-> "monitor", id |-> id, x |-> 0, y |-> 0, width |-> width,
     height |-> height, scaleFactor |-> scale_factor, dpi |-> dpi,
     hasFocus |-> has_focus, children |-> children, childFocusOrder |-> <<>>]

Envelope(raw_monitors) ==
    [success |-> JBool(TRUE), data |-> [monitors |-> raw_monitors], error |-> "null"]

\* "scaleFactor": 1.25 (client.rs:229)
DemoScaleFactor2 == [nan |-> FALSE, num |-> 1, hundredths |-> 25]

\* a window object of get_demo_data (client.rs:164-178 and alike)
DemoWindow(id, title, process_name, class_name, x, width, height, state_type,
           has_focus, is_displayed, display_state) ==
    [type |-> "window", id |-> id, title |-> title, processName |-> process_name,
     className |-> class_name, x |-> x, y |-> 0, width |-> width, height |-> height,
     state |-> [type |-> state_type], hasFocus |-> has_focus,
     isDisplayed |-> is_displayed, displayState |-> display_state]

\* a workspace object of get_demo_data (client.rs:157-163 and alike)
DemoWorkspace(id, name, has_focus, is_displayed, children) ==
    [type |-> "workspace", id |-> id, name |-> name, hasFocus |-> has_focus,
     isDisplayed |-> is_displayed, children |-> children]

\* DemoGlazewmClient::get_demo_data, with window_count the value fetch_add
\* returned (client.rs:136-278)
GetDemoData(window_count) ==
    LET focused_window == window_count % 4
    IN  [success |-> JBool(TRUE),
         data |-> [monitors |-> <<
            [type |-> "monitor", id |-> "demo-monitor-1", x |-> 0, y |-> 0,
             width |-> 1920, height |-> 1080, scaleFactor |-> F64(1), dpi |-> 96,
             hasFocus |-> TRUE,
             children |-> <<
                DemoWorkspace("demo-workspace-1", "Development", TRUE, TRUE, <<
                    DemoWindow("demo-window-1", "Visual Studio Code - glazewm-debug",
                               "Code", "Chrome_WidgetWin_1", 0, 960, 1040, "tiling",
                               focused_window = 0, TRUE, "shown"),
                    DemoWindow("demo-window-2", "Firefox - Documentation", "firefox",
                               "MozillaWindowClass", 960, 960, 1040, "tiling",
                               focused_window = 1, TRUE, "shown") >>),
                DemoWorkspace("demo-workspace-2", "Testing", FALSE, FALSE, <<
                    DemoWindow("demo-window-3", "Terminal - cargo test", "wezterm-gui",
                               "WEZTERM_GUI_CLASS", 0, 1920, 1040, "tiling",
                               FALSE, FALSE, "hidden") >>) >>],
            [type |-> "monitor", id |-> "demo-monitor-2", x |-> 1920, y |-> 0,
             width |-> 2560, height |-> 1440, scaleFactor |-> DemoScaleFactor2,
             dpi |-> 120, hasFocus |-> FALSE,
             children |-> <<
                DemoWorkspace("demo-workspace-3", "Communication", TRUE, TRUE, <<
                    DemoWindow("demo-window-4", "Discord - #general", "Discord",
                               "Chrome_WidgetWin_1", 0, 1280, 1400, "tiling",
                               focused_window = 2, TRUE, "shown"),
                    DemoWindow("demo-window-5", "Spotify - Currently Playing", "Spotify",
                               "Chrome_WidgetWin_1", 1280, 1280, 1400, "floating",
                               focused_window = 3, TRUE, "shown") >>) >>] >>],
         error |-> "null"]

RawA1 ==
    RawMonitor("m1", 1920, 1080, 96, F64(1), TRUE,
               << RawWorkspace("ws1", TRUE, << RawWindow("w1", TRUE, "tiling") >>),
                  [type |-> "split"] >>)

RawA2 == RawMonitor("m2", 1280, 720, 96, F64(1), FALSE, <<>>)

RawB1 == RawMonitor("m1", 1920, 1080, 120, F64(2), FALSE, <<>>)

RawB2 ==
    RawMonitor("m2", 1280, 720, 96, F64(1), TRUE,
               << RawWorkspace("ws2", TRUE, <<>>) >>)

DocA == Envelope(<< RawA1, RawA2 >>)

DocB == Envelope(<< RawB1, RawB2 >>)

\* well-formed JSON whose second monitor violates an invariant of Monitor::try_new
DocZeroWidth == Envelope(<< RawA1, RawMonitor("m2", 0, 720, 96, F64(1), FALSE, <<>>) >>)

DocZeroDpi == Envelope(<< RawMonitor("m1", 1920, 1080, 0, F64(1), TRUE, <<>>), RawA2 >>)

DocZeroScale == Envelope(<< RawB1, RawMonitor("m2", 1280, 720, 96, F64(0), TRUE, <<>>) >>)

\* a monitor record without its required "dpi"
DocMissingField ==
    Envelope(<< [type |-> "monitor", id |-> "m1", x |-> 0, y |-> 0, width |-> 1920,
                 height |-> 1080, scaleFactor |-> F64(1), hasFocus |-> TRUE,
                 children |-> <<>>] >>)

DocNoMonitors == [success |-> JBool(TRUE), data |-> [windows |-> <<>>], error |-> "null"]

DocNoData == [success |-> JBool(TRUE), error |-> "null"]

DocNotSuccess ==
    [success |-> JBool(FALSE), data |-> [monitors |-> << RawA1 >>], error |-> "e"]

Docs ==
    { DocA, DocB, DocZeroWidth, DocZeroDpi, DocZeroScale, DocMissingField, DocNoMonitors,
      DocNoData, DocNotSuccess }

ProcessOutcomes ==
    { [kind |-> "timeout"], [kind |-> "spawn_failed"], [kind |-> "not_json"],
      [kind |-> "exit_nonzero", code |-> 1, stderr |-> "not running"] }
    \cup { [kind |-> "json", stdout |-> d] : d \in Docs }

----------------------------------------------------------------------------
(* Shared state store (src/app/state.rs): four fields, each behind its own *)
(* tokio RwLock.                                                           *)

Activities == {"update", "input", "render"}

Fields == {"monitors", "running", "last_update", "display_mode"}

NoLock == [writer |-> "none", readers |-> {}]

\* a faulty variant: one lock around the whole AppState
LockOfWholeState(field) == "monitors"

\* each field is an Arc<RwLock<_>> of its own
LockOf(field) == field

\* a faulty variant: a writer that does not wait for the readers to leave
CanWriteIgnoringReaders(field) == locks[LockOf(field)].writer = "none"

\* a faulty variant: a writer that does not wait for another writer
CanWriteIgnoringWriter(field) == locks[LockOf(field)].readers = {}

\* RwLock::write().await returns once no guard is out
CanWrite(field) ==
    /\ locks[LockOf(field)].writer = "none"
    /\ locks[LockOf(field)].readers = {}

\* RwLock::read().await returns once no write guard is out
CanRead(field) == locks[LockOf(field)].writer = "none"

WriteLocked(field, a) == [locks EXCEPT ![LockOf(field)].writer = a]

ReadLocked(field, a) == [locks EXCEPT ![LockOf(field)].readers = @ \cup {a}]

\* dropping every guard of activity a on the locks of `fields`
Unlocked(fields, a) ==
    [l \in Fields |->
        IF l \in {LockOf(f) : f \in fields}
        THEN [writer |-> IF locks[l].writer = a THEN "none" ELSE locks[l].writer,
              readers |-> locks[l].readers \ {a}]
        ELSE locks[l]]

Holds(a) == {l \in Fields : locks[l].writer = a \/ a \in locks[l].readers}

\* DisplayMode toggled (state.rs:96-99)
Toggled(mode) == IF mode = "Detailed" THEN "Compact" ELSE "Detailed"

Flag(b) == IF b THEN "true" ELSE "false"

Finished == {"returned", "failed", "dropped", "aborted"}

----------------------------------------------------------------------------
(* Initial state: AppState::new(), the activities not yet started          *)

NoCycle ==
    [state |-> "none", bad |-> FALSE, invalid |-> FALSE, monitors |-> <<>>,
     last_update |-> None]

NoCall == [op |-> "none"]

Init ==
    /\ monitors = <<>>
    /\ running = TRUE
    /\ last_update = None
    /\ display_mode = "Detailed"
    /\ locks = [l \in Fields |-> NoLock]
    /\ pc = [a \in Activities |->
                CASE a = "update" -> "u_while"
                  [] a = "input" -> "i_check"
                  [] a = "render" -> "r_check"]
    /\ main_pc = "load"
    /\ abort_requested = FALSE
    /\ pending = <<>>
    /\ r_monitors = <<>>
    /\ r_mode = "Detailed"
    /\ now = 0
    \* Instant::now() - Duration::from_millis(500)
    /\ last_toggle_time = now - 500
    /\ toggle_now = 0
    /\ last_read = [a \in Activities |-> "none"]
    /\ cycle = NoCycle
    /\ passed = {}
    /\ gm_store = <<>>
    /\ writes = {}
    /\ toggles = <<>>
    /\ cancelled_at = [a \in Activities |-> "none"]
    /\ call = NoCall

----------------------------------------------------------------------------
(* The clock *)

DEBOUNCE_DURATION == 200

\* Observation: the handled toggles that a later toggle can still be less than
\* DEBOUNCE_DURATION apart from
RECURSIVE Recent(_, _)
Recent(seq, t) ==
    IF seq = <<>> THEN <<>>
    ELSE IF t - Head(seq).at >= DEBOUNCE_DURATION THEN Recent(Tail(seq), t)
    ELSE seq

Tick ==
    /\ main_pc = "select"
    /\ now < MaxTicks * TimeStep
    /\ now' = now + TimeStep
    /\ toggles' = Recent(toggles, now + TimeStep)
    /\ UNCHANGED << storeVars, pc, main_pc, abort_requested, pending, r_monitors, r_mode,
                    last_toggle_time, toggle_now, last_read, cycle, passed, gm_store,
                    writes, cancelled_at, call >>

----------------------------------------------------------------------------
(* Update loop (src/app/update.rs) *)

\* lines 115-123 of update_once: the client's answer, then the parser's
QueryAndParse(outcome) ==
    LET q == ExecuteQuery(outcome)
    IN  IF q.ok THEN ParseMonitors(q.value) ELSE q

\* a faulty variant: the loop gives up on the first CLI error
RunArmBreakOnError(r) == IF r = "Ok" THEN "u_while" ELSE "returned"

\* the match of run() on what update_once returned (lines 88-101)
RunArm(r) ==
    CASE r = "Ok" -> "u_while"
      [] r = "CliError" -> "u_while"
      [] r = "Stopped" -> "returned"

\* while self.state.is_running().await
UpdateWhile ==
    /\ main_pc = "select"
    /\ pc["update"] = "u_while"
    /\ CanRead("running")
    /\ last_read' = [last_read EXCEPT !["update"] = Flag(running)]
    /\ pc' = [pc EXCEPT !["update"] = IF running THEN "u_tick" ELSE "returned"]
    /\ cycle' = NoCycle
    /\ UNCHANGED << storeVars, main_pc, abort_requested, pending, r_monitors, r_mode,
                    last_toggle_time, toggle_now, now, passed, gm_store, writes, toggles,
                    cancelled_at, call >>

\* a faulty variant: update_once takes the write guard on the list before it queries
UpdateOnceCheckLocksFirst ==
    /\ main_pc = "select"
    /\ pc["update"] = "u_tick"
    /\ CanRead("running")
    /\ CanWrite("monitors")
    /\ last_read' = [last_read EXCEPT !["update"] = Flag(running)]
    /\ IF running
       THEN /\ pc' = [pc EXCEPT !["update"] = "u_query"]
            /\ locks' = WriteLocked("monitors", "update")
            /\ cycle' = [NoCycle EXCEPT !.state = "running", !.monitors = monitors,
                                             !.last_update = last_update]
       ELSE /\ pc' = [pc EXCEPT !["update"] = "returned"]
            /\ locks' = locks
            /\ cycle' = [NoCycle EXCEPT !.state = "stopped"]
    /\ UNCHANGED << monitors, running, last_update, display_mode, main_pc,
                    abort_requested, pending, r_monitors, r_mode, last_toggle_time,
                    toggle_now, now, passed, gm_store, writes, toggles, cancelled_at,
                    call >>

\* interval_timer.tick().await, then update_once, lines 110-112: the second
\* read of the run flag
UpdateOnceCheck ==
    /\ main_pc = "select"
    /\ pc["update"] = "u_tick"
    /\ CanRead("running")
    /\ last_read' = [last_read EXCEPT !["update"] = Flag(running)]
    /\ IF running
       THEN /\ pc' = [pc EXCEPT !["update"] = "u_query"]
            /\ cycle' = [NoCycle EXCEPT !.state = "running", !.monitors = monitors,
                                             !.last_update = last_update]
       ELSE /\ pc' = [pc EXCEPT !["update"] = RunArm("Stopped")]
            /\ cycle' = [NoCycle EXCEPT !.state = "stopped"]
    /\ UNCHANGED << storeVars, main_pc, abort_requested, pending, r_monitors, r_mode,
                    last_toggle_time, toggle_now, now, passed, gm_store, writes, toggles,
                    cancelled_at, call >>

\* a faulty variant: a cycle that times out wipes the snapshot
UpdateQueryTimeoutWipes ==
    /\ main_pc = "select"
    /\ pc["update"] = "u_query"
    /\ pc' = [pc EXCEPT !["update"] = "u_while"]
    /\ cycle' = [cycle EXCEPT !.state = "failed", !.bad = TRUE]
    /\ monitors' = <<>>
    /\ last_update' = None
    /\ UNCHANGED << running, display_mode, locks, main_pc, abort_requested, pending,
                    r_monitors, r_mode, last_toggle_time, toggle_now, now, last_read,
                    passed, gm_store, writes, toggles, cancelled_at, call >>

\* update_once, lines 115-120: the outer timeout elapses before the client answers
UpdateQueryTimeout ==
    /\ main_pc = "select"
    /\ pc["update"] = "u_query"
    /\ pc' = [pc EXCEPT !["update"] = RunArm("CliError")]
    /\ cycle' = [cycle EXCEPT !.state = "failed", !.bad = TRUE]
    /\ UNCHANGED << storeVars, main_pc, abort_requested, pending, r_monitors, r_mode,
                    last_toggle_time, toggle_now, now, last_read, passed, gm_store, writes,
                    toggles, cancelled_at, call >>

\* Observation: a monitor record the spec says must not be installed
RecordViolatesInvariant(m) ==
    \/ ~(RawMonitorRequired \subseteq DOMAIN m)
    \/ m.width = 0 \/ m.height = 0 \/ m.dpi <= 0 \/ F64LeZero(m.scaleFactor)

\* Observation: an answer of the external process on which the cycle must fail
OutcomeMustFail(outcome) ==
    \/ outcome.kind # "json"
    \/ outcome.stdout.success # JBool(TRUE)
    \/ ~Has(outcome.stdout, "data")
    \/ ~Has(outcome.stdout.data, "monitors")
    \/ \E i \in 1..Len(outcome.stdout.data.monitors) :
          RecordViolatesInvariant(outcome.stdout.data.monitors[i])

\* Observation: a document one of whose monitor records, complete in its
\* fields, has a zero width or height, a dpi <= 0 or a scale factor <= 0
OutcomeHasInvalidRecord(outcome) ==
    /\ outcome.kind = "json"
    /\ Has(outcome.stdout, "data")
    /\ Has(outcome.stdout.data, "monitors")
    /\ \E i \in 1..Len(outcome.stdout.data.monitors) :
          LET m == outcome.stdout.data.monitors[i]
          IN  /\ RawMonitorRequired \subseteq DOMAIN m
              /\ m.width = 0 \/ m.height = 0 \/ m.dpi <= 0 \/ F64LeZero(m.scaleFactor)

\* update_once, lines 115-123: the client answers; `?` returns on the first error
UpdateQueryDone ==
    /\ main_pc = "select"
    /\ pc["update"] = "u_query"
    /\ \E outcome \in ProcessOutcomes :
          LET r == QueryAndParse(outcome)
          IN  IF r.ok
              THEN /\ pending' = r.value
                   /\ pc' = [pc EXCEPT !["update"] = "u_um_monitors"]
                   /\ cycle' = [cycle EXCEPT !.bad = OutcomeMustFail(outcome),
                                             !.invalid = OutcomeHasInvalidRecord(outcome)]
              ELSE /\ pending' = pending
                   /\ pc' = [pc EXCEPT !["update"] = RunArm("CliError")]
                   /\ cycle' = [cycle EXCEPT !.state = "failed",
                                             !.bad = OutcomeMustFail(outcome),
                                             !.invalid = OutcomeHasInvalidRecord(outcome)]
    /\ UNCHANGED << storeVars, main_pc, abort_requested, r_monitors, r_mode,
                    last_toggle_time, toggle_now, now, last_read, passed, gm_store, writes,
                    toggles, cancelled_at, call >>

\* AppState::update_monitors, lines 36-37: the write guard, then the swap
UpdateMonitorsWrite ==
    /\ main_pc = "select"
    /\ pc["update"] = "u_um_monitors"
    /\ CanWrite("monitors")
    /\ locks' = WriteLocked("monitors", "update")
    /\ monitors' = pending
    /\ passed' = passed \cup {pending}
    /\ writes' = writes \cup {<<"update", "monitors">>}
    /\ pc' = [pc EXCEPT !["update"] = "u_um_last_update"]
    /\ UNCHANGED << running, last_update, display_mode, main_pc, abort_requested, pending,
                    r_monitors, r_mode, last_toggle_time, toggle_now, now, last_read, cycle,
                    gm_store, toggles, cancelled_at, call >>

\* AppState::update_monitors, lines 39-41: the timestamp; both guards drop at the end
UpdateMonitorsStamp ==
    /\ main_pc = "select"
    /\ pc["update"] = "u_um_last_update"
    /\ CanWrite("last_update")
    /\ last_update' = Some(now)
    /\ locks' = Unlocked({"monitors", "last_update"}, "update")
    /\ writes' = writes \cup {<<"update", "last_update">>}
    /\ pending' = <<>>
    /\ pc' = [pc EXCEPT !["update"] = RunArm("Ok")]
    /\ cycle' = [NoCycle EXCEPT !.state = "ok", !.bad = cycle.bad]
    /\ UNCHANGED << monitors, running, display_mode, main_pc, abort_requested, r_monitors,
                    r_mode, last_toggle_time, toggle_now, now, last_read, passed, gm_store,
                    toggles, cancelled_at, call >>

----------------------------------------------------------------------------
(* Render loop (src/tui/app.rs:131-156) *)

\* a faulty variant: a render loop that reads the flag and carries on regardless
RenderCheckIgnoresFlag ==
    /\ main_pc = "select"
    /\ pc["render"] = "r_check"
    /\ CanRead("running")
    /\ last_read' = [last_read EXCEPT !["render"] = Flag(running)]
    /\ pc' = [pc EXCEPT !["render"] = "r_get_monitors"]
    /\ UNCHANGED << storeVars, main_pc, abort_requested, pending, r_monitors, r_mode,
                    last_toggle_time, toggle_now, now, cycle, passed, gm_store, writes,
                    toggles, cancelled_at, call >>

\* if !state.is_running().await { break; }
RenderCheck ==
    /\ main_pc = "select"
    /\ pc["render"] = "r_check"
    /\ CanRead("running")
    /\ last_read' = [last_read EXCEPT !["render"] = Flag(running)]
    /\ pc' = [pc EXCEPT !["render"] = IF running THEN "r_get_monitors" ELSE "returned"]
    /\ UNCHANGED << storeVars, main_pc, abort_requested, pending, r_monitors, r_mode,
                    last_toggle_time, toggle_now, now, cycle, passed, gm_store, writes,
                    toggles, cancelled_at, call >>

\* AppState::get_monitors: self.monitors.read().await
RenderGetMonitors ==
    /\ main_pc = "select"
    /\ pc["render"] = "r_get_monitors"
    /\ CanRead("monitors")
    /\ locks' = ReadLocked("monitors", "render")
    /\ pc' = [pc EXCEPT !["render"] = "r_clone"]
    /\ UNCHANGED << monitors, running, last_update, display_mode, main_pc, abort_requested,
                    pending, r_monitors, r_mode, last_toggle_time, toggle_now, now,
                    histVars, call >>

\* AppState::get_monitors: .clone() copies the Vec element by element under the
\* read guard, which drops when the clone is returned
RenderClone ==
    /\ main_pc = "select"
    /\ pc["render"] = "r_clone"
    /\ IF Len(r_monitors) < Len(monitors)
       THEN /\ r_monitors' = Append(r_monitors, monitors[Len(r_monitors) + 1])
            /\ UNCHANGED << locks, pc, gm_store >>
       ELSE /\ locks' = Unlocked({"monitors"}, "render")
            /\ gm_store' = monitors
            /\ pc' = [pc EXCEPT !["render"] = "r_get_mode"]
            /\ UNCHANGED r_monitors
    /\ UNCHANGED << monitors, running, last_update, display_mode, main_pc, abort_requested,
                    pending, r_mode, last_toggle_time, toggle_now, now, last_read, cycle,
                    passed, writes, toggles, cancelled_at, call >>

\* let display_mode = state.get_display_mode().await; then
\* self.terminal.draw(..)?: the frame is drawn, or the I/O error ends render_loop
RenderDraw ==
    /\ main_pc = "select"
    /\ pc["render"] = "r_get_mode"
    /\ CanRead("display_mode")
    /\ r_mode' = display_mode
    /\ \/ pc' = [pc EXCEPT !["render"] = "r_sleep"]
       \/ pc' = [pc EXCEPT !["render"] = "failed"]
    /\ UNCHANGED << storeVars, main_pc, abort_requested, pending, r_monitors,
                    last_toggle_time, toggle_now, now, histVars, call >>

\* sleep(16 ms).await; the frame's locals go out of scope
RenderSleep ==
    /\ main_pc = "select"
    /\ pc["render"] = "r_sleep"
    /\ pc' = [pc EXCEPT !["render"] = "r_check"]
    /\ r_monitors' = <<>>
    /\ r_mode' = "Detailed"
    /\ gm_store' = <<>>
    /\ UNCHANGED << storeVars, main_pc, abort_requested, pending, last_toggle_time,
                    toggle_now, now, last_read, cycle, passed, writes, toggles,
                    cancelled_at, call >>

----------------------------------------------------------------------------
(* Input task (src/tui/input.rs, src/tui/app.rs:72-128) *)

\* enum InputAction (app.rs:174-183)
InputActions == {"Quit", "Refresh", "ToggleMode", "None"}

\* the key events the terminal can deliver: a key code, with or without Ctrl
Keys == [code : {"q", "Q", "Esc", "c", "r", "R", "x"}, ctrl : BOOLEAN]

\* InputHandler::handle_key: no key is mapped to InputAction::ToggleMode
HandleKey(key) ==
    CASE key.code \in {"q", "Q"} -> "Quit"
      [] key.code = "Esc" -> "Quit"
      [] key.code = "c" /\ key.ctrl -> "Quit"
      [] key.code \in {"r", "R"} -> "Refresh"
      [] OTHER -> "None"

\* a faulty variant: no debounce, every toggle is applied
DebounceElapsedAlways(t, last) == TRUE

\* a faulty variant: a toggle exactly DEBOUNCE_DURATION after the last is ignored
DebounceElapsedStrictly(t, last) == t - last > DEBOUNCE_DURATION

\* now.duration_since(last_toggle_time) >= DEBOUNCE_DURATION
DebounceElapsed(t, last) == t - last >= DEBOUNCE_DURATION

\* the places where the input task awaits (it can only be cancelled there)
InputAwaits == {"i_check", "i_sleep", "i_stop_lock", "i_toggle_lock", "i_toggle_log"}

\* the spawned task is polled by the runtime until it ends or is cancelled
InputRuns == main_pc \in {"select", "shutdown"}

LastTwo(seq) == IF Len(seq) > 2 THEN Tail(seq) ELSE seq

IsApplied(t) == t.applied

\* Observation: an ignored toggle is remembered until the loop's next iteration
AppliedOnly(seq) == SelectSeq(seq, IsApplied)

\* if !state.is_running().await { break; }
InputCheck ==
    /\ InputRuns
    /\ pc["input"] = "i_check"
    /\ CanRead("running")
    /\ last_read' = [last_read EXCEPT !["input"] = Flag(running)]
    /\ pc' = [pc EXCEPT !["input"] = IF running THEN "i_poll" ELSE "returned"]
    /\ toggles' = AppliedOnly(toggles)
    /\ UNCHANGED << storeVars, main_pc, abort_requested, pending, r_monitors, r_mode,
                    last_toggle_time, toggle_now, now, cycle, passed, gm_store, writes,
                    cancelled_at, call >>

\* event::poll(20 ms)? and event::read()?, handle_key, then the match on the
\* action: Quit stops and breaks, Refresh and None do nothing
InputPoll ==
    /\ InputRuns
    /\ pc["input"] = "i_poll"
    /\ \/ pc' = [pc EXCEPT !["input"] = "failed"]       \* poll or read: io::Error
       \/ pc' = [pc EXCEPT !["input"] = "i_sleep"]      \* poll: no event
       \/ pc' = [pc EXCEPT !["input"] = "i_check"]      \* an event that is no key
       \/ \E key \in Keys :
             pc' = [pc EXCEPT !["input"] =
                       IF HandleKey(key) = "Quit" THEN "i_stop_lock" ELSE "i_check"]
    /\ UNCHANGED << storeVars, main_pc, abort_requested, pending, r_monitors, r_mode,
                    last_toggle_time, toggle_now, now, histVars, call >>

\* the arm InputAction::ToggleMode of the match, lines 101-114: the debounce
InputToggle ==
    /\ InputRuns
    /\ pc["input"] = "i_poll"
    /\ IF DebounceElapsed(now, last_toggle_time)
       THEN /\ toggle_now' = now
            /\ pc' = [pc EXCEPT !["input"] = "i_toggle_lock"]
            /\ toggles' = LastTwo(Append(toggles,
                              [at |-> now, applied |-> TRUE, before |-> display_mode,
                               after |-> display_mode]))
       ELSE /\ toggle_now' = toggle_now
            /\ pc' = [pc EXCEPT !["input"] = "i_check"]
            /\ toggles' = LastTwo(Append(toggles,
                              [at |-> now, applied |-> FALSE, before |-> display_mode,
                               after |-> display_mode]))
    /\ UNCHANGED << storeVars, main_pc, abort_requested, pending, r_monitors, r_mode,
                    last_toggle_time, now, last_read, cycle, passed, gm_store, writes,
                    cancelled_at, call >>

\* sleep(5 ms).await: always suspends, so a cancelled task never wakes from it
InputSleep ==
    /\ InputRuns
    /\ pc["input"] = "i_sleep"
    /\ ~abort_requested
    /\ pc' = [pc EXCEPT !["input"] = "i_check"]
    /\ UNCHANGED << storeVars, main_pc, abort_requested, pending, r_monitors, r_mode,
                    last_toggle_time, toggle_now, now, histVars, call >>

\* AppState::stop, line 55: self.running.write().await
InputStopLock ==
    /\ InputRuns
    /\ pc["input"] = "i_stop_lock"
    /\ CanWrite("running")
    /\ locks' = WriteLocked("running", "input")
    /\ pc' = [pc EXCEPT !["input"] = "i_stop_store"]
    /\ UNCHANGED << monitors, running, last_update, display_mode, main_pc, abort_requested,
                    pending, r_monitors, r_mode, last_toggle_time, toggle_now, now,
                    histVars, call >>

\* a faulty variant: a stop() that also clears the snapshot
InputStopStoreWipes ==
    /\ InputRuns
    /\ pc["input"] = "i_stop_store"
    /\ running' = FALSE
    /\ monitors' = <<>>
    /\ locks' = Unlocked({"running"}, "input")
    /\ writes' = writes \cup {<<"input", "running">>, <<"input", "monitors">>}
    /\ pc' = [pc EXCEPT !["input"] = "returned"]
    /\ UNCHANGED << last_update, display_mode, main_pc, abort_requested, pending,
                    r_monitors, r_mode, last_toggle_time, toggle_now, now, last_read, cycle,
                    passed, gm_store, toggles, cancelled_at, call >>

\* AppState::stop, lines 56-57, then `break` and Ok(())
InputStopStore ==
    /\ InputRuns
    /\ pc["input"] = "i_stop_store"
    /\ running' = FALSE
    /\ locks' = Unlocked({"running"}, "input")
    /\ writes' = writes \cup {<<"input", "running">>}
    /\ pc' = [pc EXCEPT !["input"] = "returned"]
    /\ UNCHANGED << monitors, last_update, display_mode, main_pc, abort_requested, pending,
                    r_monitors, r_mode, last_toggle_time, toggle_now, now, last_read, cycle,
                    passed, gm_store, toggles, cancelled_at, call >>

\* AppState::toggle_display_mode, line 95: self.display_mode.write().await
InputToggleLock ==
    /\ InputRuns
    /\ pc["input"] = "i_toggle_lock"
    /\ CanWrite("display_mode")
    /\ locks' = WriteLocked("display_mode", "input")
    /\ pc' = [pc EXCEPT !["input"] = "i_toggle_store"]
    /\ UNCHANGED << monitors, running, last_update, display_mode, main_pc, abort_requested,
                    pending, r_monitors, r_mode, last_toggle_time, toggle_now, now,
                    histVars, call >>

\* AppState::toggle_display_mode, lines 96-100, then last_toggle_time = now
InputToggleStore ==
    /\ InputRuns
    /\ pc["input"] = "i_toggle_store"
    /\ display_mode' = Toggled(display_mode)
    /\ locks' = Unlocked({"display_mode"}, "input")
    /\ writes' = writes \cup {<<"input", "display_mode">>}
    /\ last_toggle_time' = toggle_now
    /\ toggle_now' = 0
    /\ toggles' = IF toggles = <<>> THEN toggles
                  ELSE [toggles EXCEPT ![Len(toggles)].after = Toggled(display_mode)]
    /\ pc' = [pc EXCEPT !["input"] = "i_toggle_log"]
    /\ UNCHANGED << monitors, running, last_update, main_pc, abort_requested, pending,
                    r_monitors, r_mode, now, last_read, cycle, passed, gm_store,
                    cancelled_at, call >>

\* debug!(.., state.get_display_mode().await), lines 107-110
InputToggleLog ==
    /\ InputRuns
    /\ pc["input"] = "i_toggle_log"
    /\ CanRead("display_mode")
    /\ pc' = [pc EXCEPT !["input"] = "i_check"]
    /\ UNCHANGED << storeVars, main_pc, abort_requested, pending, r_monitors, r_mode,
                    last_toggle_time, toggle_now, now, histVars, call >>

\* JoinHandle::abort / runtime teardown: the task is dropped where it awaits
InputCancelled ==
    /\ InputRuns
    /\ abort_requested
    /\ pc["input"] \in InputAwaits
    /\ cancelled_at' = [cancelled_at EXCEPT !["input"] = pc["input"]]
    /\ pc' = [pc EXCEPT !["input"] = "aborted"]
    /\ locks' = Unlocked(Fields, "input")
    /\ UNCHANGED << monitors, running, last_update, display_mode, main_pc, abort_requested,
                    pending, r_monitors, r_mode, last_toggle_time, toggle_now, now,
                    last_read, cycle, passed, gm_store, writes, toggles, call >>

----------------------------------------------------------------------------
(* Orchestration (src/main.rs:98-136, src/tui/app.rs:53-69) *)

\* the places where render_loop awaits
RenderAwaits == {"r_check", "r_get_monitors", "r_get_mode", "r_sleep"}

\* a faulty variant: run() does not wait for render_loop before it aborts and returns
TuiRunReadyAtOnce == TRUE

\* TuiApp::run: self.render_loop(state.clone()).await has returned
TuiRunReady == pc["render"] \in {"returned", "failed"}

\* main, lines 98-105: the initial load before the activities start.  The body of
\* update_now is not among the sources; it is taken to be one refresh cycle:
\* nothing is installed on an error, the parsed list is installed otherwise.
InitialLoad ==
    /\ main_pc = "load"
    /\ main_pc' = "select"
    /\ \E outcome \in ProcessOutcomes :
          LET r == QueryAndParse(outcome)
          IN  IF r.ok
              THEN /\ monitors' = r.value
                   /\ last_update' = Some(now)
                   /\ passed' = passed \cup {r.value}
              ELSE UNCHANGED << monitors, last_update, passed >>
    /\ UNCHANGED << running, display_mode, locks, pc, abort_requested, pending, r_monitors,
                    r_mode, last_toggle_time, toggle_now, now, last_read, cycle, gm_store,
                    writes, toggles, cancelled_at, call >>

\* select!: tui_app.run() completed.  run() has aborted the input task
\* (app.rs:65); the update_loop.run() future is dropped where it awaits.
SelectTuiBranch ==
    /\ main_pc = "select"
    /\ TuiRunReady
    /\ main_pc' = "shutdown"
    /\ abort_requested' = TRUE
    /\ IF pc["update"] \in Finished
       THEN UNCHANGED << pc, cancelled_at, locks >>
       ELSE /\ pc' = [pc EXCEPT !["update"] = "dropped"]
            /\ cancelled_at' = [cancelled_at EXCEPT !["update"] = pc["update"]]
            /\ locks' = Unlocked(Fields, "update")
    /\ UNCHANGED << monitors, running, last_update, display_mode, pending, r_monitors,
                    r_mode, last_toggle_time, toggle_now, now, last_read, cycle, passed,
                    gm_store, writes, toggles, call >>

\* select!: update_loop.run() completed.  The tui_app.run() future is dropped
\* where render_loop awaits; its JoinHandle is dropped with it, and the detached
\* input task is cancelled when main returns and the runtime is torn down.
SelectUpdateBranch ==
    /\ main_pc = "select"
    /\ pc["update"] = "returned"
    /\ pc["render"] \in RenderAwaits \cup Finished
    /\ main_pc' = "shutdown"
    /\ abort_requested' = TRUE
    /\ IF pc["render"] \in Finished
       THEN UNCHANGED << pc, cancelled_at >>
       ELSE /\ pc' = [pc EXCEPT !["render"] = "dropped"]
            /\ cancelled_at' = [cancelled_at EXCEPT !["render"] = pc["render"]]
    /\ UNCHANGED << storeVars, pending, r_monitors, r_mode, last_toggle_time, toggle_now,
                    now, last_read, cycle, passed, gm_store, writes, toggles, call >>

----------------------------------------------------------------------------
(* The program *)

UpdateStep ==
    \/ UpdateWhile
    \/ UpdateOnceCheck
    \/ UpdateQueryTimeout
    \/ UpdateQueryDone
    \/ UpdateMonitorsWrite
    \/ UpdateMonitorsStamp

RenderStep ==
    \/ RenderCheck
    \/ RenderGetMonitors
    \/ RenderClone
    \/ RenderDraw
    \/ RenderSleep

InputStep ==
    \/ InputCheck
    \/ InputPoll
    \/ InputSleep
    \/ InputStopLock
    \/ InputStopStore
    \/ InputCancelled

\* the ToggleMode arm of handle_input_events and what it calls
ToggleStep ==
    \/ InputToggle
    \/ InputToggleLock
    \/ InputToggleStore
    \/ InputToggleLog

MainStep ==
    \/ InitialLoad
    \/ SelectTuiBranch
    \/ SelectUpdateBranch

Next ==
    \/ Tick
    \/ UpdateStep
    \/ RenderStep
    \/ InputStep
    \/ MainStep

Spec == Init /\ [][Next]_vars

\* The tokio runtime keeps polling every task that can make progress, and its
\* RwLock queues waiters first-in first-out.
FairSpec ==
    /\ Spec
    /\ WF_vars(UpdateStep)
    /\ WF_vars(RenderStep)
    /\ WF_vars(InputStep)
    /\ WF_vars(MainStep)

\* The program with the ToggleMode arm of handle_input_events driven: the action
\* matched at app.rs:91 ranges over the whole enum InputAction.
NextToggle == Next \/ ToggleStep

SpecToggle == Init /\ [][NextToggle]_vars

----------------------------------------------------------------------------
(* Monitor::try_new applied to arbitrary arguments *)

MonitorIds == {"m1", "m2"}

Widths == {0, 1, 1920}

Heights == {0, 1, 1080}

Dpis == {-1, 0, 1, 96}

ScaleFactors == {NaN, F64(-1), F64(0), F64(1), F64(2)}

WorkspaceLists ==
    { <<>>,
      << WorkspaceNew("ws1", "one", <<>>, "Horizontal", "Focused", "Shown") >>,
      << WorkspaceNew("ws1", "one", <<>>, "Horizontal", "Focused", "Shown"),
         WorkspaceNew("ws2", "two", <<>>, "Vertical", "Focused", "Hidden") >> }

\* one call of the constructor on arguments drawn from the sets above
TryNewCall ==
    /\ call = NoCall
    /\ \E id \in MonitorIds, w \in Widths, h \in Heights, ws \in WorkspaceLists,
       f \in FocusStates, dpi \in Dpis, sf \in ScaleFactors :
          call' = [op |-> "try_new", id |-> id,
                   geometry |-> Rectangle(Position(0, 0), Size(w, h)),
                   workspaces |-> ws, focus_state |-> f, dpi |-> dpi,
                   scale_factor |-> sf,
                   result |-> TryNew(id, Rectangle(Position(0, 0), Size(w, h)), ws, f,
                                     dpi, sf)]
    /\ UNCHANGED << storeVars, progVars, histVars >>

NextMonitor == TryNewCall

SpecMonitor == Init /\ [][NextMonitor]_vars

----------------------------------------------------------------------------
(* The aggregate mutators applied, call after call, to a Monitor and to a  *)
(* Workspace built by their constructors from an arbitrary child list.     *)
(* `call` holds the aggregate as first built (initial), before the last    *)
(* call (before) and after it (self), the argument and the result.         *)

SampleWindow(id, focus_state) ==
    WindowNew(id, "t", "p", Rectangle(Position(0, 0), Size(960, 1040)), "Tiling",
              focus_state, "Shown")

SampleWorkspace(id, windows, focus_state) ==
    WorkspaceNew(id, id, windows, "Horizontal", focus_state, "Shown")

WindowArgs == { SampleWindow(id, f) : id \in {"w1", "w2", "w3"}, f \in FocusStates }

WorkspaceArgs ==
    { SampleWorkspace(id, <<>>, f) : id \in {"ws1", "ws2", "ws3"}, f \in FocusStates }

\* Vec<Window> handed to Workspace::new, which does not look at it
InitialWindowLists ==
    { <<>>,
      << SampleWindow("w1", "Focused") >>,
      << SampleWindow("w1", "Unfocused"), SampleWindow("w2", "Focused") >>,
      << SampleWindow("w1", "Focused"), SampleWindow("w1", "Unfocused") >> }

\* Vec<Workspace> handed to Monitor::new / try_new, which do not look at it
InitialWorkspaceLists ==
    { <<>>,
      << SampleWorkspace("ws1", << SampleWindow("w1", "Focused") >>, "Focused") >>,
      << SampleWorkspace("ws1", << SampleWindow("w1", "Focused") >>, "Unfocused"),
         SampleWorkspace("ws2", <<>>, "Focused") >>,
      << SampleWorkspace("ws1", <<>>, "Focused"), SampleWorkspace("ws2", <<>>, "Focused") >>,
      << SampleWorkspace("ws1", <<>>, "Focused"), SampleWorkspace("ws1", <<>>, "Unfocused") >> }

Called(op, n, initial, before, arg, r) ==
    [op |-> op, n |-> n, initial |-> initial, before |-> before, self |-> r.self,
     arg |-> arg, result |-> r.result]

\* Monitor::new, or Monitor::try_new on valid geometry, dpi and scale factor
NewMonitorCall ==
    /\ call = NoCall
    /\ \E ws \in InitialWorkspaceLists, checked \in BOOLEAN :
          LET geometry == Rectangle(Position(0, 0), Size(1920, 1080))
              m == IF checked
                   THEN TryNew("m1", geometry, ws, "Focused", 96, F64(1)).value
                   ELSE MonitorNew("m1", geometry, ws, "Focused", 96, F64(1))
          IN  call' = Called("new_monitor", 0, m, m, Unit, [result |-> Ok(Unit), self |-> m])
    /\ UNCHANGED << storeVars, progVars, histVars >>

AddWorkspaceCall ==
    /\ call.op \in {"new_monitor", "add_workspace", "remove_workspace"}
    /\ call.n < MaxCalls
    /\ \E w \in WorkspaceArgs :
          call' = Called("add_workspace", call.n + 1, call.initial, call.self, w,
                         AddWorkspace(call.self, w))
    /\ UNCHANGED << storeVars, progVars, histVars >>

RemoveWorkspaceCall ==
    /\ call.op \in {"new_monitor", "add_workspace", "remove_workspace"}
    /\ call.n < MaxCalls
    /\ \E id \in {"ws1", "ws2", "ws3"} :
          call' = Called("remove_workspace", call.n + 1, call.initial, call.self,
                         [id |-> id], RemoveWorkspace(call.self, id))
    /\ UNCHANGED << storeVars, progVars, histVars >>

NewWorkspaceCall ==
    /\ call = NoCall
    /\ \E windows \in InitialWindowLists :
          LET w == SampleWorkspace("ws1", windows, "Focused")
          IN  call' = Called("new_workspace", 0, w, w, Unit, [result |-> Ok(Unit), self |-> w])
    /\ UNCHANGED << storeVars, progVars, histVars >>

AddWindowCall ==
    /\ call.op \in {"new_workspace", "add_window", "remove_window"}
    /\ call.n < MaxCalls
    /\ \E w \in WindowArgs :
          call' = Called("add_window", call.n + 1, call.initial, call.self, w,
                         AddWindow(call.self, w))
    /\ UNCHANGED << storeVars, progVars, histVars >>

RemoveWindowCall ==
    /\ call.op \in {"new_workspace", "add_window", "remove_window"}
    /\ call.n < MaxCalls
    /\ \E id \in {"w1", "w2", "w3"} :
          call' = Called("remove_window", call.n + 1, call.initial, call.self,
                         [id |-> id], RemoveWindow(call.self, id))
    /\ UNCHANGED << storeVars, progVars, histVars >>

NextAggregate ==
    \/ NewMonitorCall
    \/ AddWorkspaceCall
    \/ RemoveWorkspaceCall
    \/ NewWorkspaceCall
    \/ AddWindowCall
    \/ RemoveWindowCall

SpecAggregate == Init /\ [][NextAggregate]_vars

----------------------------------------------------------------------------
(* parse_monitors applied to one JSON document.  `call` holds the document *)
(* and the result.                                                         *)

SeqsUpTo(S, n) == UNION { [1..k -> S] : k \in 0..n }

\* children of a workspace record: two windows and a split container
WorkspaceChildPool ==
    { RawWindow("w1", TRUE, "tiling"), RawWindow("w2", FALSE, "floating"),
      [type |-> "split"] }

WorkspaceChildLists == SeqsUpTo(WorkspaceChildPool, MaxChildren)

\* children of a monitor record: workspaces, a split container and a window
\* directly under the monitor
MonitorChildPool ==
    { RawWorkspace("ws1", TRUE, wc) : wc \in WorkspaceChildLists }
    \cup { RawWorkspace("ws2", TRUE, <<>>), RawWorkspace("ws1", FALSE, <<>>),
           RawWorkspace("ws2", FALSE, << RawWindow("w2", TRUE, "tiling") >>),
           [type |-> "split"], RawWindow("w3", FALSE, "tiling") }

MonitorChildLists == SeqsUpTo(MonitorChildPool, MaxChildren)

\* documents of one monitor record with any of the child lists
OneMonitorDocs ==
    { Envelope(<< RawMonitor("m1", 1920, 1080, 96, F64(1), TRUE, mc) >>) :
          mc \in MonitorChildLists }

\* monitor records that convert, and records that fail: try_new rejects the
\* dpi, serde misses "dpi", a workspace child misses its fields
MonitorPool ==
    { RawA1, RawA2, RawMonitor("m3", 1920, 1080, 0, F64(1), FALSE, <<>>),
      [type |-> "monitor", id |-> "m4", x |-> 0, y |-> 0, width |-> 1920,
       height |-> 1080, scaleFactor |-> F64(1), hasFocus |-> FALSE, children |-> <<>>],
      RawMonitor("m5", 1280, 720, 96, F64(1), FALSE,
                 << [type |-> "workspace", id |-> "ws1"] >>) }

ManyMonitorDocs == { Envelope(ms) : ms \in SeqsUpTo(MonitorPool, MaxMonitors) }

TilingDirectionStrings == {"horizontal", "vertical", "Vertical", "VERTICAL", "diagonal", ""}

StateTypeStrings ==
    {"tiling", "floating", "fullscreen", "minimized", "Floating", "FULLSCREEN",
     "maximized", ""}

DisplayStateStrings == {"shown", "hidden", "Hidden", "hiding", ""}

\* documents of one monitor, one workspace and one window over the enum strings
EnumDocs ==
    { Envelope(<< RawMonitor("m1", 1920, 1080, 96, F64(1), TRUE,
                   << [RawWorkspace("ws1", TRUE,
                          << [RawWindow("w1", TRUE, st) EXCEPT !.displayState = ds] >>)
                       EXCEPT !.tilingDirection = td] >>) >>) :
          td \in TilingDirectionStrings, st \in StateTypeStrings,
          ds \in DisplayStateStrings }

ParseDocs == OneMonitorDocs \cup ManyMonitorDocs \cup EnumDocs \cup Docs

ParseMonitorsCall ==
    /\ call = NoCall
    /\ \E json \in ParseDocs :
          call' = [op |-> "parse_monitors", json |-> json, result |-> ParseMonitors(json)]
    /\ UNCHANGED << storeVars, progVars, histVars >>

\* a second parse_monitors(&json) on the same document
ParseAgainCall ==
    /\ call.op = "parse_monitors"
    /\ call' = [op |-> "parse_again", json |-> call.json, first |-> call.result,
                result |-> ParseAgain(call.json, call.result)]
    /\ UNCHANGED << storeVars, progVars, histVars >>

\* total_window_count() on one of the parsed monitors
TotalWindowCountCall ==
    /\ call.op = "parse_monitors"
    /\ call.result.ok
    /\ \E i \in 1..Len(call.result.value) :
          call' = [op |-> "total_window_count", json |-> call.json, index |-> i,
                   self |-> call.result.value[i],
                   result |-> TotalWindowCount(call.result.value[i])]
    /\ UNCHANGED << storeVars, progVars, histVars >>

\* DemoGlazewmClient::query_monitors (client.rs:283-287), the envelope check
\* and parse_monitors on what it returned; window_count starts at 1
\* (client.rs:132) and fetch_add hands out the value before the increment
DemoQueryMonitorsCall ==
    /\ \/ call = NoCall
       \/ call.op = "demo_query_monitors" /\ call.window_count < MaxDemoQueries
    /\ LET window_count == IF call = NoCall THEN 1 ELSE call.window_count + 1
           response == GetDemoData(window_count)
       IN  call' = [op |-> "demo_query_monitors", window_count |-> window_count,
                    response |-> response, envelope |-> ValidateResponse(response),
                    result |-> ParseMonitors(response)]
    /\ UNCHANGED << storeVars, progVars, histVars >>

NextParse ==
    \/ ParseMonitorsCall
    \/ ParseAgainCall
    \/ TotalWindowCountCall
    \/ DemoQueryMonitorsCall

SpecParse == Init /\ [][NextParse]_vars

----------------------------------------------------------------------------
(* The derived queries applied to a Monitor built from an arbitrary list   *)
(* of workspaces.                                                          *)

FocusWindowLists ==
    SeqsUpTo({ SampleWindow("w1", "Focused"), SampleWindow("w2", "Focused"),
               SampleWindow("w3", "Unfocused") }, MaxChildren)

FocusWorkspaceLists ==
    SeqsUpTo({ SampleWorkspace("ws1", windows, f) :
                   windows \in FocusWindowLists, f \in FocusStates }, MaxChildren)

FocusedWindowCall ==
    /\ call = NoCall
    /\ \E ws \in FocusWorkspaceLists :
          LET m == MonitorNew("m1", Rectangle(Position(0, 0), Size(1920, 1080)), ws,
                              "Focused", 96, F64(1))
          IN  call' = [op |-> "focused_window", self |-> m,
                       result |-> MonitorFocusedWindow(m)]
    /\ UNCHANGED << storeVars, progVars, histVars >>

\* the window lists of the workspaces laid out: none to three windows
LayoutWindowLists ==
    { <<>>,
      << SampleWindow("w1", "Focused") >>,
      << SampleWindow("w1", "Focused"), SampleWindow("w2", "Unfocused") >>,
      << SampleWindow("w3", "Unfocused"), SampleWindow("w1", "Unfocused"),
         SampleWindow("w2", "Focused") >> }

CalculateLayoutCall ==
    /\ call = NoCall
    /\ \E windows \in LayoutWindowLists, direction \in {"Horizontal", "Vertical"},
          width \in 0..MaxSide, height \in 0..MaxSide :
          LET w == WorkspaceNew("ws1", "ws1", windows, direction, "Focused", "Shown")
          IN  call' = [op |-> "calculate_layout", self |-> w,
                       container_size |-> Size(width, height),
                       result |-> CalculateLayout(w, Size(width, height))]
    /\ UNCHANGED << storeVars, progVars, histVars >>

NextQuery ==
    \/ FocusedWindowCall
    \/ CalculateLayoutCall

SpecQuery == Init /\ [][NextQuery]_vars

----------------------------------------------------------------------------
(* The client alone: validate_response on one response, and query_monitors *)
(* called once per iteration of the update loop.  `call` holds the number  *)
(* of iterations begun, the number of launches of the external command,    *)
(* what the command last did and what the call returned.                   *)

ResponseSuccessValues ==
    { JBool(TRUE), JBool(FALSE), JString("true"), JNumber(1), JNull }

ResponseDataValues ==
    { JNull, JBool(FALSE), JString("x"), JNumber(0), [monitors |-> <<>>],
      [monitors |-> << JNull >>], [windows |-> <<>>], DocA.data }

\* JSON objects with and without "success" and "data", and two values that
\* are not objects
Responses ==
    { [success |-> sv, data |-> d, error |-> "null"] :
          sv \in ResponseSuccessValues, d \in ResponseDataValues }
    \cup { [success |-> sv, error |-> "null"] : sv \in ResponseSuccessValues }
    \cup { [data |-> d] : d \in ResponseDataValues }
    \cup { [error |-> "null"], JNull, JString("ok") }

ValidateResponseCall ==
    /\ call = NoCall
    /\ \E response \in Responses :
          call' = [op |-> "validate_response", response |-> response,
                   result |-> ValidateResponse(response)]
    /\ UNCHANGED << storeVars, progVars, histVars >>

\* what the launched command can do: its exit code, stderr and stdout
QueryOutcomes ==
    { [kind |-> "timeout"], [kind |-> "spawn_failed"] }
    \cup { [kind |-> "exit_nonzero", code |-> c, stderr |-> e] :
              c \in {1, 2, 255}, e \in {"", "not running"} }
    \cup { [kind |-> "not_json", code |-> 0, stderr |-> e, stdout |-> o] :
              e \in {"", "warning"}, o \in {"", "glazewm 3.0"} }
    \cup { [kind |-> "json", code |-> 0, stderr |-> "", stdout |-> d] :
              d \in {DocA, DocNoData, DocNotSuccess} }

NoOutcome == [kind |-> "none"]

\* run, lines 85-88, into update_once and query_monitors: Command::new and
\* cmd.output() launch the command
QueryLaunch ==
    /\ \/ call = NoCall
       \/ call.op = "query_monitors" /\ call.pc = "returned" /\ call.cycle < MaxCycles
    /\ call' = [op |-> "query_monitors", pc |-> "awaiting",
                cycle |-> IF call = NoCall THEN 1 ELSE call.cycle + 1,
                launches |-> IF call = NoCall THEN 1 ELSE call.launches + 1,
                outcome |-> IF call = NoCall THEN NoOutcome ELSE call.outcome,
                result |-> IF call = NoCall THEN Ok(Unit) ELSE call.result]
    /\ UNCHANGED << storeVars, progVars, histVars >>

\* execute_query returns, and run logs the error and goes round
QueryReturn ==
    /\ call.op = "query_monitors"
    /\ call.pc = "awaiting"
    /\ \E outcome \in QueryOutcomes :
          call' = [call EXCEPT !.pc = "returned",
                               !.launches = @ + Relaunches(outcome),
                               !.outcome = outcome,
                               !.result = ExecuteQuery(outcome)]
    /\ UNCHANGED << storeVars, progVars, histVars >>

NextClient ==
    \/ ValidateResponseCall
    \/ QueryLaunch
    \/ QueryReturn

SpecClient == Init /\ [][NextClient]_vars

----------------------------------------------------------------------------
(* Geometry: contains_point on every rectangle and point of the x axis,    *)
(* with a few cases of the y axis, under both build profiles.              *)

\* y, height and py
YAxisCases == { <<0, 1, 0>>, <<0, 1, 1>>, <<IMax, 1, IMax>>, <<0, UMax, 3>> }

ContainsPointCall ==
    /\ call = NoCall
    /\ \E x \in IMin..IMax, width \in 0..UMax, px \in IMin..IMax, yc \in YAxisCases,
          overflow_checks \in BOOLEAN :
          LET rect == Rectangle(Position(x, yc[1]), Size(width, yc[2]))
              point == Position(px, yc[3])
          IN  call' = [op |-> "contains_point", self |-> rect, point |-> point,
                       overflow_checks |-> overflow_checks,
                       result |-> ContainsPoint(rect, point, overflow_checks)]
    /\ UNCHANGED << storeVars, progVars, histVars >>

NextGeometry == ContainsPointCall

SpecGeometry == Init /\ [][NextGeometry]_vars

----------------------------------------------------------------------------
(* AppState's display mode, called from two tasks that share one AppState
   (state.rs:83-100).  Each call is taken apart at its awaits and at the
   read and the write of the guarded value. *)

Tasks == {"t1", "t2"}

DisplayModes == {"Detailed", "Compact"}

DisplayModeOps == {"get_display_mode", "set_display_mode", "toggle_display_mode"}

IdleTask == [pc |-> "idle", op |-> "none", mode |-> "none", value |-> "none"]

\* the calls made so far on a fresh AppState
DisplayModeCalls ==
    IF call = NoCall
    THEN [op |-> "display_mode", tasks |-> [t \in Tasks |-> IdleTask], log |-> <<>>]
    ELSE call

InFlight(c) == {t \in Tasks : c.tasks[t].pc # "idle"}

\* a task calls one of the three methods
DisplayModeCall ==
    /\ call = NoCall \/ call.op = "display_mode"
    /\ LET c == DisplayModeCalls
       IN  /\ Len(c.log) + Cardinality(InFlight(c)) < MaxCalls
           /\ \E t \in Tasks, op \in DisplayModeOps, mode \in DisplayModes :
                 /\ c.tasks[t].pc = "idle"
                 /\ call' = [c EXCEPT !.tasks[t] =
                               [pc |-> "acquire", op |-> op,
                                mode |-> IF op = "set_display_mode" THEN mode ELSE "none",
                                value |-> "none"]]
    /\ UNCHANGED << storeVars, progVars, histVars >>

\* self.display_mode.read().await (line 84) or .write().await (lines 89, 95)
DisplayModeAcquire ==
    /\ call.op = "display_mode"
    /\ \E t \in Tasks :
          /\ call.tasks[t].pc = "acquire"
          /\ IF call.tasks[t].op = "get_display_mode"
             THEN /\ CanRead("display_mode")
                  /\ locks' = ReadLocked("display_mode", t)
                  /\ call' = [call EXCEPT !.tasks[t].pc = "load"]
             ELSE /\ CanWrite("display_mode")
                  /\ locks' = WriteLocked("display_mode", t)
                  /\ call' = [call EXCEPT !.tasks[t].pc =
                                IF call.tasks[t].op = "toggle_display_mode"
                                THEN "match" ELSE "store",
                              !.tasks[t].value = call.tasks[t].mode]
    /\ UNCHANGED << monitors, running, last_update, display_mode, progVars, histVars >>

\* match *current_mode { Detailed => Compact, Compact => Detailed } (lines 96-99)
ToggleMatch ==
    /\ call.op = "display_mode"
    /\ \E t \in Tasks :
          /\ call.tasks[t].pc = "match"
          /\ call' = [call EXCEPT !.tasks[t].pc = "store",
                                  !.tasks[t].value = Toggled(display_mode)]
    /\ UNCHANGED << storeVars, progVars, histVars >>

\* *current_mode = ..; the guard is dropped at the end of the method
\* (lines 90-91, 96-100)
DisplayModeStore ==
    /\ call.op = "display_mode"
    /\ \E t \in Tasks :
          /\ call.tasks[t].pc = "store"
          /\ display_mode' = call.tasks[t].value
          /\ locks' = Unlocked({"display_mode"}, t)
          /\ call' = [call EXCEPT !.tasks[t] = IdleTask,
                        !.log = Append(@, [task |-> t, op |-> call.tasks[t].op,
                                           mode |-> call.tasks[t].mode,
                                           stored |-> call.tasks[t].value,
                                           result |-> "none"])]
    /\ UNCHANGED << monitors, running, last_update, progVars, histVars >>

\* *self.display_mode.read().await (line 84): the value is copied out and the
\* guard dropped
GetDisplayModeLoad ==
    /\ call.op = "display_mode"
    /\ \E t \in Tasks :
          /\ call.tasks[t].pc = "load"
          /\ locks' = Unlocked({"display_mode"}, t)
          /\ call' = [call EXCEPT !.tasks[t] = IdleTask,
                        !.log = Append(@, [task |-> t, op |-> "get_display_mode",
                                           mode |-> "none",
                                           stored |-> display_mode,
                                           result |-> display_mode])]
    /\ UNCHANGED << monitors, running, last_update, display_mode, progVars, histVars >>

NextDisplayMode ==
    \/ DisplayModeCall
    \/ DisplayModeAcquire
    \/ ToggleMatch
    \/ DisplayModeStore
    \/ GetDisplayModeLoad

SpecDisplayMode == Init /\ [][NextDisplayMode]_vars

----------------------------------------------------------------------------
(* The terminal over one run of main (main.rs:87-137): TuiApp::new acquires
   it in three fallible steps, the TuiApp value is dropped when main returns
   or unwinds, and Drop for TuiApp gives it back in three steps whose errors
   are ignored. *)

CallResults == {"ok", "err"}

\* how the select! of main.rs:108-133 ends, or a panic while drawing
ExitPaths == {"quit", "render_error", "update_loop_exit", "render_panic"}

MainStart ==
    [op |-> "main", pc |-> "enable_raw_mode", raw_mode |-> FALSE,
     alternate_screen |-> FALSE, acquired |-> FALSE, tui_app |-> FALSE,
     load |-> "none", exit |-> "none", restore_failed |-> FALSE]

\* enable_raw_mode()? (app.rs:40); an Err leaves TuiApp::new and main
\* (main.rs:90-93)
TuiNewEnableRawMode ==
    /\ call = NoCall
    /\ \E r \in CallResults :
          call' = IF r = "ok"
                  THEN [MainStart EXCEPT !.pc = "enter_alternate_screen",
                                         !.raw_mode = TRUE, !.acquired = TRUE]
                  ELSE [MainStart EXCEPT !.pc = "ended", !.exit = "enable_raw_mode_failed"]
    /\ UNCHANGED << storeVars, progVars, histVars >>

\* execute!(stdout, EnterAlternateScreen, EnableMouseCapture)? (app.rs:42):
\* on an Err the commands may or may not have reached the terminal, and no
\* TuiApp exists whose Drop would run
TuiNewEnterAlternateScreen ==
    /\ call.op = "main"
    /\ call.pc = "enter_alternate_screen"
    /\ \E r \in CallResults, entered \in BOOLEAN :
          /\ r = "ok" => entered
          /\ call' = IF r = "ok"
                     THEN [call EXCEPT !.pc = "terminal_new", !.alternate_screen = TRUE]
                     ELSE [call EXCEPT !.pc = "ended", !.alternate_screen = entered,
                                       !.exit = "enter_alternate_screen_failed"]
    /\ UNCHANGED << storeVars, progVars, histVars >>

\* Terminal::new(backend)? (app.rs:44), then Ok(Self { .. }) (app.rs:46-49)
TuiNewTerminal ==
    /\ call.op = "main"
    /\ call.pc = "terminal_new"
    /\ \E r \in CallResults :
          call' = IF r = "ok"
                  THEN [call EXCEPT !.pc = "update_now", !.tui_app = TRUE]
                  ELSE [call EXCEPT !.pc = "ended", !.exit = "terminal_new_failed"]
    /\ UNCHANGED << storeVars, progVars, histVars >>

\* update_loop.update_now().await, whose error is logged (main.rs:100-105)
MainUpdateNow ==
    /\ call.op = "main"
    /\ call.pc = "update_now"
    /\ \E r \in CallResults :
          call' = [call EXCEPT !.pc = "select", !.load = r]
    /\ UNCHANGED << storeVars, progVars, histVars >>

\* select! { update_loop.run(), tui_app.run(..) } (main.rs:108-133); main
\* then returns, or unwinds, and tui_app goes out of scope
MainSelect ==
    /\ call.op = "main"
    /\ call.pc = "select"
    /\ \E path \in ExitPaths :
          call' = [call EXCEPT !.pc = "disable_raw_mode", !.exit = path]
    /\ UNCHANGED << storeVars, progVars, histVars >>

\* let _ = disable_raw_mode(); (app.rs:162)
DropDisableRawMode ==
    /\ call.op = "main"
    /\ call.pc = "disable_raw_mode"
    /\ call.tui_app
    /\ \E r \in CallResults :
          call' = [call EXCEPT !.pc = "leave_alternate_screen",
                     !.raw_mode = IF r = "ok" THEN FALSE ELSE @,
                     !.restore_failed = @ \/ r = "err"]
    /\ UNCHANGED << storeVars, progVars, histVars >>

\* let _ = execute!(.., LeaveAlternateScreen, DisableMouseCapture); (app.rs:163-167)
DropLeaveAlternateScreen ==
    /\ call.op = "main"
    /\ call.pc = "leave_alternate_screen"
    /\ \E r \in CallResults :
          call' = [call EXCEPT !.pc = "show_cursor",
                     !.alternate_screen = IF r = "ok" THEN FALSE ELSE @,
                     !.restore_failed = @ \/ r = "err"]
    /\ UNCHANGED << storeVars, progVars, histVars >>

\* let _ = self.terminal.show_cursor(); (app.rs:168), and the process ends
DropShowCursor ==
    /\ call.op = "main"
    /\ call.pc = "show_cursor"
    /\ \E r \in CallResults :
          call' = [call EXCEPT !.pc = "ended", !.tui_app = FALSE,
                     !.restore_failed = @ \/ r = "err"]
    /\ UNCHANGED << storeVars, progVars, histVars >>

NextTerminal ==
    \/ TuiNewEnableRawMode
    \/ TuiNewEnterAlternateScreen
    \/ TuiNewTerminal
    \/ MainUpdateNow
    \/ MainSelect
    \/ DropDisableRawMode
    \/ DropLeaveAlternateScreen
    \/ DropShowCursor

SpecTerminal == Init /\ [][NextTerminal]_vars

----------------------------------------------------------------------------
(* The whole store (state.rs:25-100) called from two tasks that share one
   AppState.  Every method is taken apart at its awaits: a method waits for
   its lock, then reads or writes the guarded value and drops the guard;
   update_monitors waits for a second lock while it holds the first. *)

ReadOps ==
    [get_monitors |-> "monitors", monitor_count |-> "monitors",
     total_window_count |-> "monitors", focused_monitor |-> "monitors",
     is_running |-> "running", time_since_last_update |-> "last_update",
     get_display_mode |-> "display_mode"]

WriteOps ==
    [stop |-> "running", set_display_mode |-> "display_mode",
     toggle_display_mode |-> "display_mode"]

StoreOps == DOMAIN ReadOps \cup DOMAIN WriteOps \cup {"update_monitors"}

\* Vec<Monitor> values handed to update_monitors
StoreLists ==
    { <<>>,
      << MonitorNew("m1", Rectangle(Position(0, 0), Size(1920, 1080)), <<>>,
                    "Focused", 96, F64(1)) >> }

StoreIdleTask ==
    [pc |-> "idle", op |-> "none", monitors |-> <<>>, mode |-> "none",
     saw_installed |-> FALSE, elapsed_none |-> FALSE]

\* the calls made so far on a fresh AppState
StoreCalls ==
    IF call = NoCall
    THEN [op |-> "store", tasks |-> [t \in Tasks |-> StoreIdleTask], n |-> 0,
          installed |-> FALSE]
    ELSE call

\* a faulty variant: stop() written as a flip of the flag
StopValueFlips == ~running

\* *running = false (state.rs:56)
StopValue == FALSE

\* a faulty variant: the guard of the monitor list is dropped before the
\* timestamp is written
GuardsAfterMonitorsWriteDropped(t) == Unlocked({"monitors"}, t)

\* current_monitors lives to the end of update_monitors (state.rs:36-41)
GuardsAfterMonitorsWrite(t) == locks

\* a faulty variant: the timestamp lock is taken first
UpdateMonitorsLockOrderReversed == << "last_update", "monitors" >>

\* self.monitors.write() at line 36, self.last_update.write() at line 39
UpdateMonitorsLockOrder == << "monitors", "last_update" >>

\* a task calls one of the methods
StoreCall(t) ==
    /\ call = NoCall \/ call.op = "store"
    /\ LET c == StoreCalls
       IN  /\ c.n < MaxCalls
           /\ c.tasks[t].pc = "idle"
           /\ \E op \in StoreOps, list \in StoreLists, mode \in DisplayModes :
                 /\ op # "update_monitors" => list = <<>>
                 /\ op # "set_display_mode" => mode = "Detailed"
                 /\ call' = [c EXCEPT !.n = @ + 1,
                               !.tasks[t].pc = "acquire",
                               !.tasks[t].op = op,
                               !.tasks[t].monitors = list,
                               !.tasks[t].mode = IF op = "set_display_mode"
                                                 THEN mode ELSE "none"]
    /\ UNCHANGED << storeVars, progVars, histVars >>

\* .read().await / .write().await of the method's (first) lock
StoreAcquire(t) ==
    /\ call.op = "store"
    /\ call.tasks[t].pc = "acquire"
    /\ LET op == call.tasks[t].op
       IN  IF op \in DOMAIN ReadOps
           THEN /\ CanRead(ReadOps[op])
                /\ locks' = ReadLocked(ReadOps[op], t)
           ELSE LET field == IF op = "update_monitors" THEN UpdateMonitorsLockOrder[1]
                             ELSE WriteOps[op]
                IN  /\ CanWrite(field)
                    /\ locks' = WriteLocked(field, t)
    /\ call' = [call EXCEPT !.tasks[t].pc = "access"]
    /\ UNCHANGED << monitors, running, last_update, display_mode, progVars, histVars >>

\* the value is read under the read guard, which is then dropped
\* (state.rs:44-46, 49-51, 60-63, 66-68, 71-74, 77-80, 83-85)
StoreRead(t) ==
    /\ call.op = "store"
    /\ call.tasks[t].pc = "access"
    /\ call.tasks[t].op \in DOMAIN ReadOps
    /\ LET op == call.tasks[t].op
       IN  /\ locks' = Unlocked({ReadOps[op]}, t)
           /\ call' = [call EXCEPT
                 !.tasks[t].pc = "idle",
                 !.tasks[t].saw_installed =
                     IF op = "get_monitors" THEN call.installed ELSE @,
                 !.tasks[t].elapsed_none =
                     IF op = "time_since_last_update"
                     THEN @ \/ (call.tasks[t].saw_installed /\ last_update = None)
                     ELSE @]
    /\ UNCHANGED << monitors, running, last_update, display_mode, progVars, histVars >>

\* stop, set_display_mode, toggle_display_mode: the assignment under the write
\* guard, which is then dropped (state.rs:54-57, 88-91, 94-100)
StoreWrite(t) ==
    /\ call.op = "store"
    /\ call.tasks[t].pc = "access"
    /\ call.tasks[t].op \in DOMAIN WriteOps
    /\ LET op == call.tasks[t].op
       IN  /\ running' = IF op = "stop" THEN StopValue ELSE running
           /\ display_mode' = CASE op = "set_display_mode" -> call.tasks[t].mode
                                [] op = "toggle_display_mode" -> Toggled(display_mode)
                                [] OTHER -> display_mode
           /\ locks' = Unlocked({WriteOps[op]}, t)
    /\ call' = [call EXCEPT !.tasks[t].pc = "idle"]
    /\ UNCHANGED << monitors, last_update, progVars, histVars >>

\* update_monitors: *current_monitors = monitors (state.rs:37)
UpdateMonitorsStoreList(t) ==
    /\ call.op = "store"
    /\ call.tasks[t].pc = "access"
    /\ call.tasks[t].op = "update_monitors"
    /\ monitors' = call.tasks[t].monitors
    /\ locks' = GuardsAfterMonitorsWrite(t)
    /\ call' = [call EXCEPT !.tasks[t].pc = "acquire_second", !.installed = TRUE]
    /\ UNCHANGED << running, last_update, display_mode, progVars, histVars >>

\* update_monitors: self.last_update.write().await (state.rs:39)
UpdateMonitorsAcquireSecond(t) ==
    /\ call.op = "store"
    /\ call.tasks[t].pc = "acquire_second"
    /\ CanWrite(UpdateMonitorsLockOrder[2])
    /\ locks' = WriteLocked(UpdateMonitorsLockOrder[2], t)
    /\ call' = [call EXCEPT !.tasks[t].pc = "stamp"]
    /\ UNCHANGED << monitors, running, last_update, display_mode, progVars, histVars >>

\* update_monitors: *last_update = Some(Instant::now()), and both guards are
\* dropped (state.rs:40-41)
UpdateMonitorsStoreStamp(t) ==
    /\ call.op = "store"
    /\ call.tasks[t].pc = "stamp"
    /\ last_update' = Some(now)
    /\ locks' = Unlocked({"monitors", "last_update"}, t)
    /\ call' = [call EXCEPT !.tasks[t].pc = "idle"]
    /\ UNCHANGED << monitors, running, display_mode, progVars, histVars >>

\* the steps by which a call that has begun goes on
StoreReturn(t) ==
    \/ StoreAcquire(t)
    \/ StoreRead(t)
    \/ StoreWrite(t)
    \/ UpdateMonitorsStoreList(t)
    \/ UpdateMonitorsAcquireSecond(t)
    \/ UpdateMonitorsStoreStamp(t)

NextStore == \E t \in Tasks : StoreCall(t) \/ StoreReturn(t)

SpecStore == Init /\ [][NextStore]_vars

\* The tokio runtime keeps polling every task that can make progress.
FairSpecStore == SpecStore /\ \A t \in Tasks : WF_vars(StoreReturn(t))

----------------------------------------------------------------------------
(* UpdateLoop::run against a stop() made by another task (update.rs:85-132),
   with the start of the client query a step of its own after the run-flag
   read of update_once. *)

\* a faulty variant: the loop goes by a flag value it read once at startup
RunFlagReadStale(flag) == TRUE

\* self.state.is_running().await (update.rs:85, 110)
RunFlagRead(flag) == flag

RunStart ==
    [op |-> "run", pc |-> "u_while", cycle |-> 0, stopped |-> FALSE,
     queries_after_stop |-> 0, replacements_after_stop |-> 0]

\* update_loop.run() is first polled
RunBegin ==
    /\ call = NoCall
    /\ call' = RunStart
    /\ UNCHANGED << storeVars, progVars, histVars >>

\* while self.state.is_running().await (line 85)
RunWhile ==
    /\ call.op = "run"
    /\ call.pc = "u_while"
    /\ RunFlagRead(running) => call.cycle < MaxCycles
    /\ call' = IF RunFlagRead(running)
               THEN [call EXCEPT !.pc = "u_tick", !.cycle = @ + 1]
               ELSE [call EXCEPT !.pc = "returned"]
    /\ UNCHANGED << storeVars, progVars, histVars >>

\* interval_timer.tick().await, then the run-flag read of update_once
\* (lines 86, 110-112)
RunOnceCheck ==
    /\ call.op = "run"
    /\ call.pc = "u_tick"
    /\ call' = [call EXCEPT !.pc = IF RunFlagRead(running) THEN "u_launch"
                                   ELSE RunArm("Stopped")]
    /\ UNCHANGED << storeVars, progVars, histVars >>

\* self.client.query_monitors() is polled under timeout (line 115): the
\* client query starts
RunLaunch ==
    /\ call.op = "run"
    /\ call.pc = "u_launch"
    /\ call' = [call EXCEPT !.pc = "u_query",
                  !.queries_after_stop = IF call.stopped THEN @ + 1 ELSE @]
    /\ UNCHANGED << storeVars, progVars, histVars >>

\* the query times out, fails or answers, and the answer is parsed
\* (lines 115-123); on success update_monitors replaces the list (line 129)
RunQueryDone ==
    /\ call.op = "run"
    /\ call.pc = "u_query"
    /\ \E outcome \in ProcessOutcomes \cup {[kind |-> "outer_timeout"]} :
          LET r == IF outcome.kind = "outer_timeout"
                   THEN Err([kind |-> "CommandTimeout"])
                   ELSE QueryAndParse(outcome)
          IN  IF r.ok
              THEN /\ monitors' = r.value
                   /\ last_update' = Some(now)
                   /\ call' = [call EXCEPT !.pc = RunArm("Ok"),
                                 !.replacements_after_stop =
                                     IF call.stopped THEN @ + 1 ELSE @]
              ELSE /\ UNCHANGED << monitors, last_update >>
                   /\ call' = [call EXCEPT !.pc = RunArm("CliError")]
    /\ UNCHANGED << running, display_mode, locks, progVars, histVars >>

\* AppState::stop called by another task runs to completion (state.rs:54-57)
StopCompletes ==
    /\ call.op = "run"
    /\ running' = StopValue
    /\ call' = [call EXCEPT !.stopped = TRUE]
    /\ running \/ ~call.stopped
    /\ UNCHANGED << monitors, last_update, display_mode, locks, progVars, histVars >>

NextRun ==
    \/ RunBegin
    \/ RunWhile
    \/ RunOnceCheck
    \/ RunLaunch
    \/ RunQueryDone
    \/ StopCompletes

SpecRun == Init /\ [][NextRun]_vars

----------------------------------------------------------------------------
(* Properties *)

\* C1: when a refresh cycle fails, the store's monitor list and last-update
\* timestamp are what they were when the cycle began, and the run flag is still
\* true unless the input activity's stop() has cleared it meanwhile; a cycle
\* whose answer is a client error, a timeout, a bad envelope or schema, or an
\* invalid monitor record does fail.
FailedCycleLeavesStore ==
    /\ cycle.state = "failed" =>
          /\ monitors = cycle.monitors
          /\ last_update = cycle.last_update
          /\ running \/ <<"input", "running">> \in writes
    /\ cycle.bad => cycle.state = "failed"

\* C1 witness: a cycle has failed while the store held a loaded snapshot and
\* the run flag was true
FailedCycleSeen ==
    /\ cycle.state = "failed"
    /\ monitors # <<>>
    /\ last_update # None
    /\ running

\* C11: every Monitor the store holds, and every Monitor ever handed to
\* update_monitors, has width > 0, height > 0, dpi > 0 and a scale factor > 0;
\* a cycle whose document holds a monitor record violating one of these fails
\* and leaves the store's list as it was when the cycle began.
StoredMonitorsValid ==
    /\ \A list \in passed \cup {monitors, pending} :
          \A i \in 1..Len(list) :
              /\ list[i].geometry.size.width > 0
              /\ list[i].geometry.size.height > 0
              /\ list[i].device_info.dpi > 0
              /\ ~list[i].device_info.scale_factor.nan
              /\ list[i].device_info.scale_factor.num > 0
    /\ cycle.invalid =>
          /\ cycle.state = "failed"
          /\ monitors = cycle.monitors
          /\ cycle.monitors \in passed \cup {<<>>}

\* C11 witness: a document with an invalid monitor record has been answered
\* while the store held a loaded snapshot
InvalidRecordSeen ==
    /\ cycle.invalid
    /\ Len(monitors) = 2
    /\ monitors \in passed

\* C2: every get_monitors returns, in full, the empty initial list or one list
\* passed to update_monitors, and it is the list the store holds at that moment
GetMonitorsNeverMixes ==
    pc["render"] \in {"r_get_mode", "r_sleep"} =>
        /\ r_monitors \in passed \cup {<<>>}
        /\ r_monitors = gm_store

\* C2 witness: after two different lists were passed to update_monitors, a
\* get_monitors has returned the one installed last
GetMonitorsAfterTwoUpdates ==
    /\ pc["render"] = "r_get_mode"
    /\ Cardinality(passed) >= 2
    /\ r_monitors # <<>>
    /\ r_monitors = monitors

\* C3: run() has returned only after a read of the run flag gave false; after a
\* failed cycle the loop is back at its head (or was dropped by select!), and
\* run() never ends with an error
RunLeavesOnlyOnFlag ==
    /\ pc["update"] = "returned" => last_read["update"] = "false"
    /\ cycle.state = "failed" => pc["update"] \in {"u_while", "dropped"}
    /\ pc["update"] # "failed"

\* C3 witness: a cycle has failed and the loop is at its head again, the run
\* flag still true
LoopContinuesAfterFailure ==
    /\ cycle.state = "failed"
    /\ pc["update"] = "u_while"
    /\ last_read["update"] = "true"
    /\ running

\* C4: an activity that has read the run flag as false has left its loop and
\* does nothing more; a query, a key poll and a frame are each begun only by
\* the step that has just read the flag; and once the flag is false every
\* activity eventually has left its loop (returned, or was dropped by select!
\* or aborted while it waited).
StopEndsEveryActivity ==
    /\ [](\A a \in Activities : last_read[a] = "false" => pc[a] \in Finished)
    /\ [][/\ pc'["update"] = "u_query" /\ pc["update"] # "u_query"
              => pc["update"] = "u_tick" /\ last_read'["update"] = "true"
          /\ pc'["input"] = "i_poll" /\ pc["input"] # "i_poll"
              => pc["input"] = "i_check" /\ last_read'["input"] = "true"
          /\ pc'["render"] = "r_get_monitors" /\ pc["render"] # "r_get_monitors"
              => pc["render"] = "r_check" /\ last_read'["render"] = "true"]_vars
    /\ (running = FALSE) ~> (\A a \in Activities : pc[a] \in Finished)

\* C4 witness: after stop(), the update and render loops have each read the flag
\* as false and returned, as has the input task
AllReturnedAfterStop ==
    /\ running = FALSE
    /\ \A a \in Activities : pc[a] = "returned"
    /\ last_read["update"] = "false"
    /\ last_read["render"] = "false"

OneWriterPerField ==
    /\ [](writes \subseteq { <<"update", "monitors">>, <<"update", "last_update">>,
                             <<"input", "running">>, <<"input", "display_mode">> })
    /\ [][main_pc # "load" =>
            /\ (monitors' # monitors \/ last_update' # last_update) =>
                  /\ pc'["update"] # pc["update"]
                  /\ pc'["input"] = pc["input"] /\ pc'["render"] = pc["render"]
            /\ (running' # running \/ display_mode' # display_mode) =>
                  /\ pc'["input"] # pc["input"]
                  /\ pc'["update"] = pc["update"] /\ pc'["render"] = pc["render"]]_vars

\* C6 witness: every field has been written, each by its one writer
EveryFieldWritten ==
    writes = { <<"update", "monitors">>, <<"update", "last_update">>,
               <<"input", "running">>, <<"input", "display_mode">> }

QueryHoldsNoLock ==
    (main_pc = "select" /\ pc["update"] = "u_query") =>
        /\ Holds("update") = {}
        /\ (pc["render"] = "r_check" /\ pc["input"] # "i_stop_store") => ENABLED RenderCheck
        /\ pc["render"] = "r_get_monitors" => ENABLED RenderGetMonitors
        /\ pc["render"] = "r_get_mode" => ENABLED RenderDraw
        /\ pc["input"] = "i_check" => ENABLED InputCheck
        /\ pc["input"] = "i_stop_lock" => ENABLED InputStopLock

\* C8 witness: with a query in flight and time passing, the render loop has
\* fetched the list and the input task is about to take the run flag's lock
RenderAndInputDuringQuery ==
    /\ main_pc = "select"
    /\ pc["update"] = "u_query"
    /\ now > 0
    /\ pc["render"] = "r_get_mode"
    /\ pc["input"] = "i_stop_lock"

\* C9: of two toggles handled less than 200 ms apart, the first applied, the
\* second is ignored, and the display mode after both is the mode after the
\* first alone
SecondToggleIgnored ==
    (Len(toggles) = 2 /\ toggles[1].applied /\ toggles[2].at - toggles[1].at < 200) =>
        /\ ~toggles[2].applied
        /\ toggles[1].after = Toggled(toggles[1].before)
        /\ toggles[2].after = toggles[1].after
        /\ display_mode = toggles[1].after

\* C9 witness: a toggle was applied and one handled later, within 200 ms of it,
\* was ignored
ToggleIgnoredInWindow ==
    /\ Len(toggles) = 2
    /\ toggles[1].applied
    /\ ~toggles[2].applied
    /\ toggles[2].at > toggles[1].at
    /\ toggles[2].at - toggles[1].at < 200

\* C10: try_new fails exactly when width = 0 or height = 0 or dpi <= 0 or
\* scale factor <= 0, with InvalidGeometry before InvalidDpi before
\* InvalidScaleFactor; otherwise the Monitor carries the arguments unchanged
TryNewValidates ==
    call.op = "try_new" =>
        LET zero_size == call.geometry.size.width = 0 \/ call.geometry.size.height = 0
            bad_dpi == call.dpi <= 0
            bad_scale == ~call.scale_factor.nan /\ call.scale_factor.num <= 0
            r == call.result
        IN  /\ ~r.ok <=> (zero_size \/ bad_dpi \/ bad_scale)
            /\ ~r.ok =>
                  r.error.kind = IF zero_size THEN "InvalidGeometry"
                                 ELSE IF bad_dpi THEN "InvalidDpi"
                                 ELSE "InvalidScaleFactor"
            /\ r.ok =>
                  /\ r.value.id = call.id
                  /\ r.value.geometry = call.geometry
                  /\ r.value.workspaces = call.workspaces
                  /\ r.value.focus_state = call.focus_state
                  /\ r.value.device_info.dpi = call.dpi
                  /\ r.value.device_info.scale_factor = call.scale_factor

\* C10 witness: a call with dpi = 0 and a scale factor of 0 is rejected for its dpi
TryNewRejectsZeroDpi ==
    /\ call.op = "try_new"
    /\ call.dpi = 0
    /\ call.scale_factor = F64(0)
    /\ ~call.result.ok
    /\ call.result.error.kind = "InvalidDpi"


\* C12: for a Monitor built by Monitor::new or Monitor::try_new from any
\* workspace list, after any sequence of add_workspace calls, accepted or
\* rejected, at most one contained workspace is Focused.
AtMostOneFocusedAfterAdd ==
    call.op = "add_workspace" =>
        Cardinality({ i \in 1..Len(call.self.workspaces) :
                        call.self.workspaces[i].focus_state = "Focused" }) <= 1

\* C13: from a Workspace or Monitor whose children have pairwise distinct ids,
\* after any sequence of add_window / add_workspace calls no two children
\* share an id; an add whose id is already present returns the duplicate-id
\* error naming that id and leaves the number of children unchanged.
DistinctIdsPreserved ==
    call.op \in {"add_workspace", "add_window", "remove_window"} =>
        LET kids(x) == IF call.op = "add_workspace" THEN x.workspaces ELSE x.windows
            distinct(seq) ==
                \A i, j \in 1..Len(seq) : i # j => seq[i].id # seq[j].id
            present == \E i \in 1..Len(kids(call.before)) :
                           kids(call.before)[i].id = call.arg.id
        IN  distinct(kids(call.initial)) =>
              /\ distinct(kids(call.self))
              /\ (call.op # "remove_window" /\ present) =>
                    /\ ~call.result.ok
                    /\ call.result.error.kind =
                          (IF call.op = "add_workspace" THEN "DuplicateWorkspaceId"
                                                        ELSE "DuplicateWindowId")
                    /\ call.result.error.id = call.arg.id
                    /\ Len(kids(call.self)) = Len(kids(call.before))
              /\ (call.op # "remove_window" /\ ~present) =>
                    /\ call.result.ok
                    /\ Len(kids(call.self)) = Len(kids(call.before)) + 1

\* C13 witness: a monitor built with two distinct workspaces has taken a third
\* and then refused a workspace whose id it already holds
DuplicateWorkspaceRefused ==
    /\ call.op = "add_workspace"
    /\ ~call.result.ok
    /\ Len(call.initial.workspaces) = 2
    /\ call.initial.workspaces[1].id # call.initial.workspaces[2].id
    /\ Len(call.self.workspaces) = 3

\* C16: add_window with an id already present fails with DuplicateWindowId and
\* remove_window with an absent id fails with WindowNotFound, each naming the
\* id; in both cases the workspace is, in every field and in its window
\* sequence, what it was before the call.
FailedWindowCallLeavesWorkspace ==
    call.op \in {"add_window", "remove_window"} =>
        LET present == \E i \in 1..Len(call.before.windows) :
                           call.before.windows[i].id = call.arg.id
            fails == IF call.op = "add_window" THEN present ELSE ~present
        IN  /\ fails =>
                  /\ ~call.result.ok
                  /\ call.result.error =
                        [kind |-> IF call.op = "add_window" THEN "DuplicateWindowId"
                                                            ELSE "WindowNotFound",
                         id |-> call.arg.id]
                  /\ call.self = call.before
            /\ ~fails => call.result.ok

\* C16 witness: a workspace holding two windows has refused a third call, an
\* add_window of an id it holds or a remove_window of an id it lacks
WindowCallRefused ==
    /\ call.op \in {"add_window", "remove_window"}
    /\ ~call.result.ok
    /\ Len(call.before.windows) = 2
    /\ call.before.windows[1].id # call.before.windows[2].id
    /\ call.n = 3

\* C17: a successful add_workspace(w) appends w, as given, as the last
\* workspace; if w is Focused every workspace contained before becomes
\* Unfocused and w is the only Focused one; if w is Unfocused the focus states
\* of the workspaces contained before are unchanged; in both cases their ids,
\* names, windows and order, and the monitor's other fields, are unchanged.
AddWorkspaceAppends ==
    (call.op = "add_workspace" /\ call.result.ok) =>
        LET old == call.before.workspaces
            new == call.self.workspaces
        IN  /\ Len(new) = Len(old) + 1
            /\ new[Len(new)] = call.arg
            /\ \A i \in 1..Len(old) :
                  /\ new[i].id = old[i].id
                  /\ new[i].name = old[i].name
                  /\ new[i].windows = old[i].windows
                  /\ new[i].focus_state =
                        (IF call.arg.focus_state = "Focused" THEN "Unfocused"
                                                             ELSE old[i].focus_state)
            /\ call.arg.focus_state = "Focused" =>
                  { i \in 1..Len(new) : new[i].focus_state = "Focused" } = { Len(new) }
            /\ [call.self EXCEPT !.workspaces = old] = call.before

\* C17 witness: a Focused workspace has been added to a monitor whose Focused
\* workspace held a window
FocusedWorkspaceAdded ==
    /\ call.op = "add_workspace"
    /\ call.result.ok
    /\ call.arg.focus_state = "Focused"
    /\ \E i \in 1..Len(call.before.workspaces) :
          /\ call.before.workspaces[i].focus_state = "Focused"
          /\ call.before.workspaces[i].windows # <<>>

\* C14: in every Monitor list returned by parse_monitors no monitor contains
\* two workspaces with the same id and no workspace contains two windows with
\* the same id, for every document the parser accepts.
ParsedIdsDistinct ==
    (call.op = "parse_monitors" /\ call.result.ok) =>
        \A m \in 1..Len(call.result.value) :
            LET wss == call.result.value[m].workspaces
            IN  /\ \A i, j \in 1..Len(wss) : i # j => wss[i].id # wss[j].id
                /\ \A k \in 1..Len(wss) :
                      \A i, j \in 1..Len(wss[k].windows) :
                          i # j => wss[k].windows[i].id # wss[k].windows[j].id

\* C15: in every Monitor returned by parse_monitors at most one workspace is
\* Focused, for every document the parser accepts.
ParsedAtMostOneFocused ==
    (call.op = "parse_monitors" /\ call.result.ok) =>
        \A m \in 1..Len(call.result.value) :
            Cardinality({ i \in 1..Len(call.result.value[m].workspaces) :
                            call.result.value[m].workspaces[i].focus_state = "Focused" })
                <= 1

\* C18: in an accepted document the parsed workspaces of each monitor record
\* are exactly its children tagged "workspace", in document order, and the
\* parsed windows of each workspace record are exactly its children tagged
\* "window", in document order; a document of complete records whose other
\* children carry other type tags is accepted.
ChildrenFilteredInOrder ==
    call.op = "parse_monitors" =>
        /\ call.json \in OneMonitorDocs => call.result.ok
        /\ call.result.ok =>
              /\ Len(call.result.value) = Len(call.json.data.monitors)
              /\ \A m \in 1..Len(call.result.value) :
                    LET IsWorkspace(c) == c.type = "workspace"
                        IsWindow(c) == c.type = "window"
                        raws == SelectSeq(call.json.data.monitors[m].children, IsWorkspace)
                        wss == call.result.value[m].workspaces
                    IN  /\ Len(wss) = Len(raws)
                        /\ \A k \in 1..Len(wss) :
                              LET raww == SelectSeq(raws[k].children, IsWindow)
                              IN  /\ wss[k].id = raws[k].id
                                  /\ wss[k].name = raws[k].name
                                  /\ wss[k].focus_state = FocusOf(raws[k].hasFocus)
                                  /\ Len(wss[k].windows) = Len(raww)
                                  /\ \A i \in 1..Len(raww) :
                                        /\ wss[k].windows[i].id = raww[i].id
                                        /\ wss[k].windows[i].focus_state =
                                              FocusOf(raww[i].hasFocus)

\* C18 witness: an accepted document whose monitor has a child of another tag
\* before a workspace, and that workspace a child of another tag before a
\* window; one workspace with one window came out
OtherTagsDropped ==
    /\ call.op = "parse_monitors"
    /\ call.result.ok
    /\ Len(call.json.data.monitors) = 1
    /\ Len(call.json.data.monitors[1].children) = 2
    /\ call.json.data.monitors[1].children[1].type = "split"
    /\ call.json.data.monitors[1].children[2].type = "workspace"
    /\ Len(call.json.data.monitors[1].children[2].children) = 2
    /\ call.json.data.monitors[1].children[2].children[1].type = "split"
    /\ call.json.data.monitors[1].children[2].children[2].type = "window"
    /\ Len(call.result.value[1].workspaces) = 1
    /\ Len(call.result.value[1].workspaces[1].windows) = 1

\* C19: enum strings are matched exactly and with a default, and never fail
\* the parse: tilingDirection "vertical" gives Vertical and every other string
\* Horizontal; state.type "floating", "fullscreen", "minimized" give Floating,
\* Fullscreen, Minimized and every other string Tiling; displayState "hidden"
\* gives Hidden and every other string Shown.
EnumStringsMapped ==
    (call.op = "parse_monitors" /\ call.json \in EnumDocs) =>
        /\ call.result.ok
        /\ LET raw_ws == call.json.data.monitors[1].children[1]
               raw_w == raw_ws.children[1]
               ws == call.result.value[1].workspaces[1]
               w == ws.windows[1]
           IN  /\ ws.tiling_direction =
                     (IF raw_ws.tilingDirection = "vertical" THEN "Vertical"
                                                             ELSE "Horizontal")
               /\ w.state =
                     (IF raw_w.state.type = "floating" THEN "Floating"
                      ELSE IF raw_w.state.type = "fullscreen" THEN "Fullscreen"
                      ELSE IF raw_w.state.type = "minimized" THEN "Minimized"
                      ELSE "Tiling")
               /\ w.display_state =
                     (IF raw_w.displayState = "hidden" THEN "Hidden" ELSE "Shown")

\* C19 witness: "Vertical", "FULLSCREEN" and "Hidden", which differ from the
\* matched strings only in case, have been parsed to the defaults
CapitalisedStringsDefaulted ==
    /\ call.op = "parse_monitors"
    /\ call.json \in EnumDocs
    /\ call.json.data.monitors[1].children[1].tilingDirection = "Vertical"
    /\ call.json.data.monitors[1].children[1].children[1].state.type = "FULLSCREEN"
    /\ call.json.data.monitors[1].children[1].children[1].displayState = "Hidden"
    /\ call.result.ok
    /\ call.result.value[1].workspaces[1].tiling_direction = "Horizontal"
    /\ call.result.value[1].workspaces[1].windows[1].state = "Tiling"
    /\ call.result.value[1].workspaces[1].windows[1].display_state = "Shown"

\* C20: parse_monitors returns an error, which carries no list, or a list with
\* exactly one Monitor per element of data.monitors, in document order; when
\* any monitor record fails conversion or validation the result is an error.
AllMonitorsOrError ==
    call.op = "parse_monitors" =>
        /\ ~call.result.ok => DOMAIN call.result = {"ok", "error"}
        /\ call.result.ok =>
              /\ Len(call.result.value) = Len(call.json.data.monitors)
              /\ \A i \in 1..Len(call.result.value) :
                    /\ call.result.value[i].id = call.json.data.monitors[i].id
                    /\ call.result.value[i].geometry.size.width =
                          call.json.data.monitors[i].width
                    /\ call.result.value[i].device_info.dpi =
                          call.json.data.monitors[i].dpi
        /\ (Has(call.json, "data") /\ Has(call.json.data, "monitors")) =>
              LET incomplete(c) == c.type = "workspace"
                                   /\ ~(RawWorkspaceRequired \subseteq DOMAIN c)
                  fails(m) == \/ RecordViolatesInvariant(m)
                              \/ \E k \in 1..Len(m.children) : incomplete(m.children[k])
              IN  (\E i \in 1..Len(call.json.data.monitors) :
                      fails(call.json.data.monitors[i])) => ~call.result.ok

\* C20 witness: a document of three monitor records, the first two good and
\* the third rejected by try_new, has been answered with an error
ThirdRecordFailsAll ==
    /\ call.op = "parse_monitors"
    /\ Has(call.json, "data")
    /\ Has(call.json.data, "monitors")
    /\ Len(call.json.data.monitors) = 3
    /\ ~RecordViolatesInvariant(call.json.data.monitors[1])
    /\ ~RecordViolatesInvariant(call.json.data.monitors[2])
    /\ RawMonitorRequired \subseteq DOMAIN call.json.data.monitors[3]
    /\ call.json.data.monitors[3].dpi = 0
    /\ ~call.result.ok

\* C21: a monitor invariant violation (zero width or height, dpi <= 0, scale
\* factor <= 0) is reported by parse_monitors with an error kind different
\* from the kind it reports for a missing data object and from the kind it
\* reports for a missing required field.
InvariantViolationKindDistinct ==
    (/\ call.op = "parse_monitors"
     /\ MonitorResponseValid(call.json)
     /\ \E i \in 1..Len(call.json.data.monitors) :
           LET m == call.json.data.monitors[i]
           IN  m.width = 0 \/ m.height = 0 \/ m.dpi <= 0 \/ F64LeZero(m.scaleFactor))
    => /\ ~call.result.ok
       /\ call.result.error.kind # ParseMonitors(DocNoData).error.kind
       /\ call.result.error.kind # ParseMonitors(DocMissingField).error.kind

TotalWindowCountIsSum ==
    call.op = "total_window_count" =>
        LET wss == call.self.workspaces
            raw == call.json.data.monitors[call.index].children
        IN  /\ call.result =
                  Cardinality({ p \in (1..Len(wss)) \X (1..(MaxChildren + 1)) :
                                  p[2] <= Len(wss[p[1]].windows) })
            /\ call.result =
                  Cardinality({ p \in (1..Len(raw)) \X (1..(MaxChildren + 1)) :
                                  /\ raw[p[1]].type = "workspace"
                                  /\ p[2] <= Len(raw[p[1]].children)
                                  /\ raw[p[1]].children[p[2]].type = "window" })

\* C23 witness: a count of three over two workspaces, in a record that also
\* holds children of other tags
ThreeWindowsCounted ==
    /\ call.op = "total_window_count"
    /\ call.result = 3
    /\ Len(call.self.workspaces) = 2
    /\ \E k \in 1..2 : \E i \in 1..Len(call.json.data.monitors[call.index].children[k].children) :
          call.json.data.monitors[call.index].children[k].children[i].type # "window"

\* C24: Monitor.focused_window() returns the first Focused window in
\* depth-first order, workspaces in their order and windows in their order
\* within each workspace, whatever the workspaces' own focus states are, and
\* returns none exactly when no contained window is Focused.
FocusedWindowIsFirst ==
    call.op = "focused_window" =>
        LET wss == call.self.workspaces
            focused == { p \in (1..Len(wss)) \X (1..MaxChildren) :
                           /\ p[2] <= Len(wss[p[1]].windows)
                           /\ wss[p[1]].windows[p[2]].focus_state = "Focused" }
            before(p, q) == p[1] < q[1] \/ (p[1] = q[1] /\ p[2] < q[2])
        IN  /\ (call.result = None) <=> (focused = {})
            /\ focused # {} =>
                  \E p \in focused :
                      /\ \A q \in focused : q = p \/ before(p, q)
                      /\ call.result = Some(wss[p[1]].windows[p[2]])

\* C24 witness: the first Focused window is the second window of an Unfocused
\* first workspace, and a Focused workspace after it holds another Focused
\* window
FocusedWindowInUnfocusedWorkspace ==
    /\ call.op = "focused_window"
    /\ Len(call.self.workspaces) = 2
    /\ call.self.workspaces[1].focus_state = "Unfocused"
    /\ call.self.workspaces[2].focus_state = "Focused"
    /\ Len(call.self.workspaces[1].windows) = 2
    /\ call.self.workspaces[1].windows[1].focus_state = "Unfocused"
    /\ call.self.workspaces[1].windows[2].id = "w2"
    /\ Len(call.self.workspaces[2].windows) = 1
    /\ call.self.workspaces[2].windows[1].id = "w1"
    /\ call.result = Some(call.self.workspaces[1].windows[2])

\* C25: validate_response accepts a response exactly when its success field
\* is the boolean true and a data field is present; otherwise it fails with
\* InvalidJsonSchema naming "success", which is checked first, or "data"; the
\* contents of data make no difference.
EnvelopeCheckExact ==
    call.op = "validate_response" =>
        LET r == call.response
            success_true == "success" \in DOMAIN r /\ r.success = JBool(TRUE)
            data_present == "data" \in DOMAIN r
        IN  /\ call.result.ok <=> (success_true /\ data_present)
            /\ ~success_true =>
                  call.result = Err([kind |-> "InvalidJsonSchema", field |-> "success"])
            /\ (success_true /\ ~data_present) =>
                  call.result = Err([kind |-> "InvalidJsonSchema", field |-> "data"])

\* C25 witness: a response with the string "true" as success and no data has
\* been refused for its success field
StringSuccessRefused ==
    /\ call.op = "validate_response"
    /\ "success" \in DOMAIN call.response
    /\ call.response.success = JString("true")
    /\ "data" \notin DOMAIN call.response
    /\ ~call.result.ok
    /\ call.result.error.field = "success"

\* C26: each query_monitors call launches the external command exactly once;
\* a command that exceeds the timeout makes the call return CommandTimeout
\* without a further launch, and the next launch is that of the next
\* iteration of the update loop.
OneLaunchPerQuery ==
    call.op = "query_monitors" =>
        /\ call.launches = call.cycle
        /\ (call.pc = "returned" /\ call.outcome.kind = "timeout") =>
              /\ ~call.result.ok
              /\ call.result.error.kind = "CommandTimeout"

\* C26 witness: the first query timed out and the second iteration has
\* launched the command, the second launch in all
RelaunchedInNextCycle ==
    /\ call.op = "query_monitors"
    /\ call.pc = "awaiting"
    /\ call.cycle = 2
    /\ call.outcome.kind = "timeout"
    /\ call.launches = 2

\* C27: a query whose process exits with a non-zero status, and a query whose
\* process emits non-JSON stdout, each return an error of a kind other than
\* those of timeout and launch failure, and that error carries the captured
\* stderr and the exit code.
FailureCarriesStderrAndCode ==
    (/\ call.op = "query_monitors"
     /\ call.pc = "returned"
     /\ call.outcome.kind \in {"exit_nonzero", "not_json"})
    => /\ ~call.result.ok
       /\ call.result.error.kind \notin {"CommandTimeout", "CommandExecutionFailed"}
       /\ "stderr" \in DOMAIN call.result.error
       /\ "code" \in DOMAIN call.result.error
       /\ call.result.error.stderr = call.outcome.stderr
       /\ call.result.error.code = call.outcome.code

\* C28: for every rectangle and every point, contains_point returns true
\* exactly when x <= px < x + width and y <= py < y + height over the
\* mathematical integers, and it never fails.
ContainsPointExact ==
    call.op = "contains_point" =>
        /\ ~call.result.panicked
        /\ call.result.value <=>
              /\ call.self.position.x <= call.point.x
              /\ call.point.x < call.self.position.x + call.self.size.width
              /\ call.self.position.y <= call.point.y
              /\ call.point.y < call.self.position.y + call.self.size.height

\* C29: for a workspace with n >= 1 windows and any container size,
\* calculate_layout returns n entries in window order; with Horizontal
\* direction the widths sum to the container width and every height is the
\* container height; with Vertical direction the heights sum to the container
\* height and every width is the container width.
LayoutFillsContainer ==
    (call.op = "calculate_layout" /\ Len(call.self.windows) >= 1) =>
        LET n == Len(call.self.windows)
            out == call.result
            total_width == Cardinality({ p \in (1..Len(out)) \X (1..MaxSide) :
                                           p[2] <= out[p[1]].size.width })
            total_height == Cardinality({ p \in (1..Len(out)) \X (1..MaxSide) :
                                            p[2] <= out[p[1]].size.height })
        IN  /\ Len(out) = n
            /\ \A i \in 1..n : out[i].window_id = call.self.windows[i].id
            /\ call.self.tiling_direction = "Horizontal" =>
                  /\ total_width = call.container_size.width
                  /\ \A i \in 1..n : out[i].size.height = call.container_size.height
            /\ call.self.tiling_direction = "Vertical" =>
                  /\ total_height = call.container_size.height
                  /\ \A i \in 1..n : out[i].size.width = call.container_size.width

\* C30: every completed toggle_display_mode turns Detailed into Compact and
\* Compact into Detailed relative to the mode the call before it left, every
\* completed set_display_mode(m) leaves m, every get_display_mode returns the
\* mode the call before it left, and the store holds the mode the last call
\* left, whatever the interleaving of the callers; no other store field
\* changes.  So two consecutive toggles restore the mode, and a get that
\* follows set_display_mode(m) returns m.
DisplayModeCallsAtomic ==
    call.op = "display_mode" =>
        /\ \A i \in 1..Len(call.log) :
              LET entry == call.log[i]
                  before == IF i = 1 THEN "Detailed" ELSE call.log[i - 1].stored
              IN  /\ entry.op = "toggle_display_mode" =>
                        \/ before = "Detailed" /\ entry.stored = "Compact"
                        \/ before = "Compact" /\ entry.stored = "Detailed"
                  /\ entry.op = "set_display_mode" => entry.stored = entry.mode
                  /\ entry.op = "get_display_mode" =>
                        entry.stored = before /\ entry.result = before
        /\ display_mode = IF call.log = <<>> THEN "Detailed"
                          ELSE call.log[Len(call.log)].stored
        /\ monitors = <<>>
        /\ running = TRUE
        /\ last_update = None

\* the last two calls to complete were toggles, one by each task, and the
\* mode is back at Detailed
TogglesOfTwoTasksRestored ==
    /\ call.op = "display_mode"
    /\ Len(call.log) >= 2
    /\ call.log[Len(call.log) - 1].op = "toggle_display_mode"
    /\ call.log[Len(call.log)].op = "toggle_display_mode"
    /\ call.log[Len(call.log) - 1].task # call.log[Len(call.log)].task
    /\ display_mode = "Detailed"

\* C31: when the process has ended after terminal setup enabled raw mode or
\* entered the alternate screen, and no restoring call itself failed, raw
\* mode is off and the alternate screen has been left, whichever way the
\* program ended (quit, render error, update-loop exit, a failure part-way
\* through terminal setup).
TerminalRestoredAtExit ==
    (/\ call.op = "main"
     /\ call.pc = "ended"
     /\ call.acquired
     /\ ~call.restore_failed) =>
        /\ ~call.raw_mode
        /\ ~call.alternate_screen

\* C32: add_workspace with an id already present fails with
\* DuplicateWorkspaceId and remove_workspace with an absent id fails with
\* WorkspaceNotFound, each naming the id; in both cases the monitor is, in
\* every field and in its workspace sequence (focus states included), what it
\* was before the call.
FailedWorkspaceCallLeavesMonitor ==
    call.op \in {"add_workspace", "remove_workspace"} =>
        LET present == \E i \in 1..Len(call.before.workspaces) :
                           call.before.workspaces[i].id = call.arg.id
        IN  /\ (call.op = "add_workspace" /\ present) =>
                  /\ ~call.result.ok
                  /\ call.result.error = [kind |-> "DuplicateWorkspaceId",
                                          id |-> call.arg.id]
                  /\ call.self = call.before
            /\ (call.op = "remove_workspace" /\ ~present) =>
                  /\ ~call.result.ok
                  /\ call.result.error = [kind |-> "WorkspaceNotFound",
                                          id |-> call.arg.id]
                  /\ call.self = call.before

\* C32 witness: in its second or a later call a monitor that holds a Focused
\* workspace has refused a Focused workspace whose id it already holds
FocusedDuplicateRefused ==
    /\ call.op = "add_workspace"
    /\ ~call.result.ok
    /\ call.arg.focus_state = "Focused"
    /\ \E i \in 1..Len(call.before.workspaces) :
          call.before.workspaces[i].focus_state = "Focused"
    /\ call.n >= 2

\* C33: a toggle is applied exactly when at least 200 ms have passed since the
\* last applied toggle (since 500 ms before startup for the first, which is
\* therefore always applied); an applied toggle restarts the window at the
\* instant it was handled; an ignored toggle leaves the display mode and the
\* start of the window as they were; so two applied toggles are never less
\* than 200 ms apart.
DebounceExact ==
    LET last == toggles[Len(toggles)]
    IN  /\ last_toggle_time < 0 => \A i \in 1..Len(toggles) : toggles[i].applied
        /\ pc["input"] \in {"i_toggle_lock", "i_toggle_store"} =>
              /\ toggle_now - last_toggle_time >= 200
              /\ toggles # <<>> => last.applied /\ last.at = toggle_now
        /\ (pc["input"] = "i_toggle_log" /\ toggles # <<>>) =>
              /\ last.applied
              /\ last_toggle_time = last.at
        /\ (toggles # <<>> /\ ~last.applied) =>
              /\ last.at - last_toggle_time < 200
              /\ display_mode = last.before
              /\ last.after = last.before
              /\ (Len(toggles) = 2 /\ toggles[1].applied) =>
                    last_toggle_time = toggles[1].at
        /\ (Len(toggles) = 2 /\ toggles[1].applied /\ toggles[2].applied) =>
              toggles[2].at - toggles[1].at >= 200

\* C33 witness: a toggle handled exactly 200 ms after the last applied one is
\* being applied
ToggleAppliedAtWindowEnd ==
    /\ pc["input"] = "i_toggle_store"
    /\ last_toggle_time >= 0
    /\ toggle_now = last_toggle_time + DEBOUNCE_DURATION
    /\ toggles # <<>>
    /\ toggles[Len(toggles)].applied
    /\ display_mode = "Compact"

\* C34: the run flag is true in the initial state, and no step of any store
\* operation, whoever calls it and however the calls interleave, turns it
\* from false to true.
RunFlagMonotone ==
    /\ running = TRUE
    /\ [][running = FALSE => running' = FALSE]_vars

\* C34 witness: both tasks have completed a stop(), the later of the two
\* writing the flag when it was already false
StoppedTwice ==
    /\ call.op = "store"
    /\ running = FALSE
    /\ \A t \in Tasks : call.tasks[t].pc = "idle" /\ call.tasks[t].op = "stop"

\* C35: under fair scheduling every store call that has begun returns,
\* whatever the other caller does; a task that holds two locks is inside
\* update_monitors and holds the write guards of the monitor list and of the
\* timestamp, and a task inside update_monitors that holds the timestamp lock
\* holds the monitor-list lock too (it took that one first).
StoreCallsReturn ==
    /\ [](call.op = "store" =>
            \A t \in Tasks :
                /\ Cardinality(Holds(t)) >= 2 =>
                      /\ call.tasks[t].op = "update_monitors"
                      /\ Holds(t) = {"monitors", "last_update"}
                      /\ locks["monitors"].writer = t
                      /\ locks["last_update"].writer = t
                /\ "last_update" \in Holds(t) /\ call.tasks[t].op = "update_monitors" =>
                      "monitors" \in Holds(t)
                /\ call.tasks[t].pc = "idle" => Holds(t) = {})
    /\ \A t \in Tasks :
          (call.op = "store" /\ call.tasks[t].pc # "idle")
              ~> (call.op = "store" /\ call.tasks[t].pc = "idle")

\* C35 witness: one task inside update_monitors holds the monitor-list lock
\* and waits for the timestamp lock, which the other task holds as a reader
UpdateWaitsForStampReader ==
    /\ call.op = "store"
    /\ \E t, u \in Tasks :
          /\ t # u
          /\ call.tasks[t].pc = "acquire_second"
          /\ locks["monitors"].writer = t
          /\ u \in locks["last_update"].readers

\* C36: a task whose get_monitors returned after some update_monitors had
\* written the monitor list never afterwards gets None from
\* time_since_last_update.
InstalledListHasTimestamp ==
    call.op = "store" => \A t \in Tasks : ~call.tasks[t].elapsed_none

\* C36 witness: a task that read an installed monitor list has then completed
\* time_since_last_update, with the list written by the other task
ReaderSawListThenTimestamp ==
    /\ call.op = "store"
    /\ \E t, u \in Tasks :
          /\ t # u
          /\ call.tasks[t].saw_installed
          /\ call.tasks[t].op = "time_since_last_update"
          /\ call.tasks[t].pc = "idle"
          /\ call.tasks[u].op = "update_monitors"
          /\ monitors # <<>>

\* C37: once a stop() has completed, the update loop starts at most one more
\* client query and replaces the monitor list at most one more time.
OneQueryAfterStop ==
    call.op = "run" =>
        /\ call.queries_after_stop <= 1
        /\ call.replacements_after_stop <= 1

\* C37 witness: stop() completed between the run-flag read of update_once and
\* the start of the query; the query was started, its answer installed, and
\* the loop has returned
QueryStartedAfterStop ==
    /\ call.op = "run"
    /\ call.pc = "returned"
    /\ call.queries_after_stop = 1
    /\ call.replacements_after_stop = 1
    /\ monitors # <<>>

\* C38: whenever the input activity has stopped on its own, having returned
\* after a quit key or failed on an error of event::poll or event::read, the
\* render and update activities eventually stop as well.
InputEndStopsTheRest ==
    (pc["input"] \in {"returned", "failed"})
        ~> (pc["render"] \in Finished /\ pc["update"] \in Finished)

\* C39: every response of the demo client's query_monitors passes the envelope
\* check and is accepted by parse_monitors, which returns two monitors holding
\* three workspaces and five windows in all.
DemoResponseAccepted ==
    call.op = "demo_query_monitors" =>
        /\ call.envelope.ok
        /\ call.result.ok
        /\ Len(call.result.value) = 2
        /\ Len(call.result.value[1].workspaces) + Len(call.result.value[2].workspaces) = 3
        /\ TotalWindowCount(call.result.value[1])
              + TotalWindowCount(call.result.value[2]) = 5

====
